---------------------------- MODULE Spec2Model ----------------------------
(***************************************************************************)
(* Model of the Android emulator side panel extension (src/src/extension.ts). *)
(*                                                                         *)
(* Strings are sequences of tokens.  A token is a literal chunk of         *)
(* characters that no operation of the program looks inside: the special   *)
(* characters the program's regular expressions react to ("%", "$", "{",   *)
(* "}", "~", the path separator "/", blanks, line breaks) are tokens of    *)
(* their own, and every other token is a run of ordinary characters.  The  *)
(* token "/" stands for the platform's path separator.                     *)
(***************************************************************************)
EXTENDS Integers, Sequences, FiniteSets, TLC

VARIABLES
    message,    \* the webview message being handled: its command ("" without one)
    platform,   \* os.platform(): "win32", "darwin" or "linux"
    config,     \* the configuration store: sdkPath, emulatorPath, adbPath
    fs,         \* the filesystem: the set of paths that exist
    env,        \* process.env: variable name -> value (<<>> when unset)
    pc,         \* position of the handler that is running
    tools,      \* result of the last _findAndroidTools call
    detected,   \* result of the last _autoDetectSdkPaths call, with its probes
    enumeration,\* _getAvailableAvds: what the two enumeration methods saw and gave
    correlation,\* _getRunningEmulators: instances, strategy log, recovered names
    response,   \* the avdList message posted to the webview
    launch,     \* _launchAvd: the request and what the handler did, in order
    answers,    \* an environment that does not change: how each command ends in it
    suspended,  \* the locals of the other list-devices call, waiting at an await
    alone,      \* the response of a list-devices call that ran alone
    argument,   \* the string a helper function is called with
    returned,   \* what the helper function returned
    session     \* the messages handled so far, and the first _findAndroidTools call

-----------------------------------------------------------------------------
(* Generic helpers on sequences. *)

RECURSIVE Flatten(_)
Flatten(ss) == IF ss = <<>> THEN <<>> ELSE Head(ss) \o Flatten(Tail(ss))

RECURSIVE SelectSeqOf(_, _)
\* the subsequence of s whose elements are in the set S
SelectSeqOf(s, S) ==
    IF s = <<>> THEN <<>>
    ELSE (IF Head(s) \in S THEN <<Head(s)>> ELSE <<>>) \o SelectSeqOf(Tail(s), S)

Range(s) == { s[i] : i \in 1..Len(s) }

RECURSIVE IndexFrom(_, _, _)
\* index of the first element of s at or after position i equal to x, 0 when none
IndexFrom(s, x, i) ==
    IF i > Len(s) THEN 0 ELSE IF s[i] = x THEN i ELSE IndexFrom(s, x, i + 1)

\* index of the first element of s equal to x, 0 when there is none
IndexOf(s, x) == IndexFrom(s, x, 1)

-----------------------------------------------------------------------------
(* path.join and path.normalize of Node (posix flavour; "/" is the         *)
(* separator token).                                                       *)

RECURSIVE SplitOn(_, _)
\* s split at every occurrence of the token sep (String.prototype.split)
SplitOn(s, sep) ==
    LET i == IndexOf(s, sep)
    IN  IF i = 0 THEN <<s>>
        ELSE <<SubSeq(s, 1, i-1)>> \o SplitOn(SubSeq(s, i+1, Len(s)), sep)

RECURSIVE JoinWith(_, _)
\* the parts joined with the token sep between them (Array.prototype.join)
JoinWith(parts, sep) ==
    IF parts = <<>> THEN <<>>
    ELSE IF Len(parts) = 1 THEN parts[1]
    ELSE parts[1] \o <<sep>> \o JoinWith(Tail(parts), sep)

RECURSIVE NormalizeSegments(_, _, _)
\* normalizeString of Node's path module: resolves "." and ".." segments
NormalizeSegments(segs, res, allowAboveRoot) ==
    IF segs = <<>> THEN res
    ELSE LET s == Head(segs)
             rest == Tail(segs)
         IN  IF s = <<>> \/ s = <<".">> THEN NormalizeSegments(rest, res, allowAboveRoot)
             ELSE IF s = <<"..">> THEN
                 IF res # <<>> /\ res[Len(res)] # <<"..">>
                 THEN NormalizeSegments(rest, SubSeq(res, 1, Len(res)-1), allowAboveRoot)
                 ELSE IF allowAboveRoot
                 THEN NormalizeSegments(rest, Append(res, s), allowAboveRoot)
                 ELSE NormalizeSegments(rest, res, allowAboveRoot)
             ELSE NormalizeSegments(rest, Append(res, s), allowAboveRoot)

\* the end of path.normalize: the normalized segments joined again, with the
\* leading and trailing separators of the input
NormalizedPath(body, isAbsolute, trailingSeparator) ==
    IF body = <<>>
    THEN (IF isAbsolute THEN <<"/">>
          ELSE IF trailingSeparator THEN <<".", "/">> ELSE <<".">>)
    ELSE (IF isAbsolute THEN <<"/">> ELSE <<>>) \o body
         \o (IF trailingSeparator THEN <<"/">> ELSE <<>>)

PathNormalize(p) ==
    IF p = <<>> THEN <<".">>
    ELSE NormalizedPath(
             JoinWith(NormalizeSegments(SplitOn(p, "/"), <<>>, p[1] # "/"), "/"),
             p[1] = "/", p[Len(p)] = "/")

\* path.join of parts none of which is empty
JoinNonEmpty(nonEmpty) ==
    IF nonEmpty = <<>> THEN <<".">> ELSE PathNormalize(JoinWith(nonEmpty, "/"))

\* path.join(...parts): the non-empty parts joined by the separator, normalized
PathJoin(parts) == JoinNonEmpty(SelectSeq(parts, LAMBDA x : x # <<>>))

-----------------------------------------------------------------------------
(* Environment accessors. *)

Platforms == {"win32", "darwin", "linux"}

\* os.homedir()
HomeDir == <<"/", "home">>

\* the environment variables the model gives a value to
EnvNames == {"ANDROID_HOME", "ANDROID_SDK_ROOT", "LOCALAPPDATA",
             "ProgramFiles", "ProgramFiles(x86)"}

\* tokens made of [a-zA-Z0-9_] characters only
WordTokens == {"ANDROID_HOME", "ANDROID_SDK_ROOT", "LOCALAPPDATA", "ProgramFiles",
               "UNSET", "sdk", "sdk2", "opt", "emu", "adb", "emulator",
               "home", "x", "tools", "bin", "avd", "Sdk", "Android",
               "Library", "AppData", "Local", "a", "b"}

\* process.env[name] || '' : the name is the text between the delimiters
EnvValue(e, name) ==
    IF Len(name) = 1 /\ name[1] \in DOMAIN e THEN e[name[1]] ELSE <<>>

-----------------------------------------------------------------------------
(* expandEnvVars. *)

RECURSIVE PercentPass(_, _)
\* replace(/%([^%]+)%/g, env value or '')
PercentPass(s, e) ==
    IF s = <<>> THEN <<>>
    ELSE IF Head(s) = "%"
    THEN LET rest == Tail(s)
             j == IndexOf(rest, "%")
         IN  IF j >= 2
             THEN EnvValue(e, SubSeq(rest, 1, j-1))
                  \o PercentPass(SubSeq(rest, j+1, Len(rest)), e)
             ELSE <<"%">> \o PercentPass(rest, e)
    ELSE <<Head(s)>> \o PercentPass(Tail(s), e)

RECURSIVE WordRun(_)
\* length of the longest prefix of s made of word tokens ([a-zA-Z0-9_]+, greedy)
WordRun(s) ==
    IF s # <<>> /\ Head(s) \in WordTokens THEN 1 + WordRun(Tail(s)) ELSE 0

RECURSIVE DollarPass(_, _)
\* replace(/\$(?:{([^}]+)}|([a-zA-Z0-9_]+))/g, env value or '')
DollarPass(s, e) ==
    IF s = <<>> THEN <<>>
    ELSE IF Head(s) = "$"
    THEN LET rest == Tail(s)
             close == IF rest # <<>> /\ Head(rest) = "{" THEN IndexOf(rest, "}") ELSE 0
             run == WordRun(rest)
         IN  IF close >= 3
             THEN EnvValue(e, SubSeq(rest, 2, close-1))
                  \o DollarPass(SubSeq(rest, close+1, Len(rest)), e)
             ELSE IF run >= 1
             THEN EnvValue(e, SubSeq(rest, 1, run))
                  \o DollarPass(SubSeq(rest, run+1, Len(rest)), e)
             ELSE <<"$">> \o DollarPass(rest, e)
    ELSE <<Head(s)>> \o DollarPass(Tail(s), e)

\* a home-directory step that reacts to a "~" anywhere in the string
TildePass_Unanchored(s) ==
    IF "~" \in { s[i] : i \in 1..Len(s) } THEN PathJoin(<<HomeDir, Tail(s)>>) ELSE s

\* the home-directory step: path.join(os.homedir(), result.substring(1))
TildePass(s) ==
    IF s # <<>> /\ Head(s) = "~" THEN PathJoin(<<HomeDir, Tail(s)>>) ELSE s

\* an expansion that runs the dollar pass before the percent pass
expandEnvVars_DollarFirst(s, e) ==
    IF s = <<>> THEN s ELSE TildePass(PercentPass(DollarPass(s, e), e))

expandEnvVars(s, e) ==
    IF s = <<>> THEN s ELSE TildePass(DollarPass(PercentPass(s, e), e))

-----------------------------------------------------------------------------
(* _findAndroidTools (ToolLocator). *)

\* p is q or a directory above q
IsAncestorOrSelf(p, q) ==
    \/ p = q
    \/ /\ p # <<>>
       /\ Len(p) < Len(q)
       /\ SubSeq(q, 1, Len(p)) = p
       /\ (q[Len(p) + 1] = "/" \/ p[Len(p)] = "/")

\* fs.exists(p): f holds the deepest paths of the filesystem, and every
\* directory above an existing path exists
exists(f, p) == \E q \in f : IsAncestorOrSelf(p, q)

\* path.join(homeDir, '.android', 'avd')
AvdHomeCandidate == PathJoin(<<HomeDir, <<".android">>, <<"avd">>>>)

\* exeSuffix: '.exe' on win32, '' elsewhere
ExeSuffix(plat) == IF plat = "win32" THEN <<".exe">> ELSE <<>>

\* the error lines (the error string is its lines joined by '\n')
EmulatorMissingMsg(p) ==
    [text |-> "Configured emulator path does not exist: ", path |-> p]
AdbMissingMsg(p) ==
    [text |-> "Configured adb path does not exist: ", path |-> p]
SdkNotConfiguredMsg ==
    [text |-> "Found Android AVDs but the Android SDK path is not configured. Please click \"Auto-Detect SDK\" or configure the SDK path manually.",
     path |-> <<>>]

\* a candidate list that starts under tools
possibleEmulatorLocations_ToolsFirst(sdkPath, plat) ==
    << PathJoin(<<sdkPath, <<"tools">>, <<"emulator">> \o ExeSuffix(plat)>>),
       PathJoin(<<sdkPath, <<"emulator">>, <<"emulator">> \o ExeSuffix(plat)>>),
       PathJoin(<<sdkPath, <<"tools">>, <<"emulator">>, <<"emulator">> \o ExeSuffix(plat)>>),
       PathJoin(<<sdkPath, <<"tools">>, <<"bin">>, <<"emulator">> \o ExeSuffix(plat)>>) >>

possibleEmulatorLocations(sdkPath, plat) ==
    << PathJoin(<<sdkPath, <<"emulator">>, <<"emulator">> \o ExeSuffix(plat)>>),
       PathJoin(<<sdkPath, <<"tools">>, <<"emulator">> \o ExeSuffix(plat)>>),
       PathJoin(<<sdkPath, <<"tools">>, <<"emulator">>, <<"emulator">> \o ExeSuffix(plat)>>),
       PathJoin(<<sdkPath, <<"tools">>, <<"bin">>, <<"emulator">> \o ExeSuffix(plat)>>) >>

winEmulatorScript(sdkPath) == PathJoin(<<sdkPath, <<"emulator">>, <<"emulator">>>>)

possibleAdbLocations(sdkPath, plat) ==
    << PathJoin(<<sdkPath, <<"platform-tools">>, <<"adb">> \o ExeSuffix(plat)>>) >>

RECURSIVE ProbeLoop(_, _)
\* for (const location of locations) { if (await exists(location)) { found; break; } }
\* the locations probed, in order: up to and including the first that exists
ProbeLoop(f, locations) ==
    IF locations = <<>> THEN <<>>
    ELSE IF exists(f, Head(locations)) THEN <<Head(locations)>>
    ELSE <<Head(locations)>> \o ProbeLoop(f, Tail(locations))

\* the location such a loop finds: the last one probed when it exists, '' otherwise
FoundBy(f, probed) ==
    IF probed # <<>> /\ exists(f, probed[Len(probed)]) THEN probed[Len(probed)] ELSE <<>>

\* lines 350-359 / 361-369: a configured override is used as it is, found or not
OverridePath(configured) == configured

\* lines 353-355, 363-365: the error line of a configured override that is missing
OverrideError(f, configured, msg) ==
    IF configured # <<>> /\ ~exists(f, configured) THEN <<msg>> ELSE <<>>

\* lines 376-402: the probes for the emulator under the SDK root
SdkEmulatorProbes(f, sdkPath, plat) ==
    LET loop == ProbeLoop(f, possibleEmulatorLocations(sdkPath, plat))
    IN  IF FoundBy(f, loop) = <<>> /\ plat = "win32"
        THEN loop \o <<winEmulatorScript(sdkPath)>>
        ELSE loop

\* lines 404-418: the probes for adb under the SDK root
SdkAdbProbes(f, sdkPath, plat) == ProbeLoop(f, possibleAdbLocations(sdkPath, plat))

\* mutant: the fallback to the bare command name is missing
OrCommandName_NoFallback(p, name) == p

\* lines 421-430: the bare command name when nothing was resolved
OrCommandName(p, name) == IF p = <<>> THEN <<name>> ELSE p

\* mutant: the advisory is set only when no other error was recorded
FinalError_OnlyIfNoError(error, avdHome, sdkPath) ==
    IF avdHome # <<>> /\ sdkPath = <<>> /\ error = <<>>
    THEN <<SdkNotConfiguredMsg>> ELSE error

\* lines 432-435: the advisory error when AVDs exist and no SDK root is configured
FinalError(error, avdHome, sdkPath) ==
    IF avdHome # <<>> /\ sdkPath = <<>> THEN <<SdkNotConfiguredMsg>> ELSE error

\* a locator that, without a configured SDK root, uses the root the last
\* _autoDetectSdkPaths call returned
FindAndroidTools_RemembersDetected(cfg, f, e, plat) ==
    LET sdkPath == IF cfg.sdkPath = <<>> THEN detected.result.sdkPath
                   ELSE expandEnvVars(cfg.sdkPath, e)
        avdHome == IF exists(f, AvdHomeCandidate) THEN AvdHomeCandidate ELSE <<>>
    IN  [ paths  |-> [ emulator |-> OrCommandName(FoundBy(f, SdkEmulatorProbes(f, sdkPath, plat)),
                                                  "emulator"),
                       adb      |-> OrCommandName(FoundBy(f, SdkAdbProbes(f, sdkPath, plat)),
                                                  "adb"),
                       avdHome  |-> avdHome ],
          error  |-> FinalError(<<>>, avdHome, sdkPath),
          probes |-> <<AvdHomeCandidate>> ]

FindAndroidTools(cfg, f, e, plat) ==
    LET sdkPath == expandEnvVars(cfg.sdkPath, e)
        configuredEmulatorPath == expandEnvVars(cfg.emulatorPath, e)
        configuredAdbPath == expandEnvVars(cfg.adbPath, e)
        avdHome == IF exists(f, AvdHomeCandidate) THEN AvdHomeCandidate ELSE <<>>
        emulator1 == OverridePath(configuredEmulatorPath)
        adb1 == OverridePath(configuredAdbPath)
        error1 == OverrideError(f, configuredEmulatorPath,
                                EmulatorMissingMsg(configuredEmulatorPath))
                  \o OverrideError(f, configuredAdbPath, AdbMissingMsg(configuredAdbPath))
        emuProbes == IF sdkPath # <<>> /\ emulator1 = <<>>
                     THEN SdkEmulatorProbes(f, sdkPath, plat) ELSE <<>>
        adbProbes == IF sdkPath # <<>> /\ adb1 = <<>>
                     THEN SdkAdbProbes(f, sdkPath, plat) ELSE <<>>
        emulator2 == IF emulator1 # <<>> THEN emulator1 ELSE FoundBy(f, emuProbes)
        adb2 == IF adb1 # <<>> THEN adb1 ELSE FoundBy(f, adbProbes)
    IN  [ paths  |-> [ emulator |-> OrCommandName(emulator2, "emulator"),
                       adb      |-> OrCommandName(adb2, "adb"),
                       avdHome  |-> avdHome ],
          error  |-> FinalError(error1, avdHome, sdkPath),
          probes |-> <<AvdHomeCandidate>>
                     \o (IF configuredEmulatorPath # <<>> THEN <<configuredEmulatorPath>> ELSE <<>>)
                     \o (IF configuredAdbPath # <<>> THEN <<configuredAdbPath>> ELSE <<>>)
                     \o emuProbes \o adbProbes ]

\* the value of `tools` before any call
NoTools == [ paths |-> [emulator |-> <<>>, adb |-> <<>>, avdHome |-> <<>>],
             error |-> <<>>, probes |-> <<>> ]

-----------------------------------------------------------------------------
(* _autoDetectSdkPaths (SdkAutoDetector). *)

\* path.dirname(p)
PathDirname(p) ==
    LET seps == { i \in 1..Len(p) : p[i] = "/" }
        last == IF seps = {} THEN 0 ELSE CHOOSE i \in seps : \A j \in seps : j <= i
    IN  IF last = 0 THEN <<".">>
        ELSE IF last = 1 THEN <<"/">>
        ELSE SubSeq(p, 1, last - 1)

\* a validity predicate that is content with the platform-tools directory
IsValidSdkLocation_PlatformToolsOnly(f, sdkPath, plat) ==
    exists(f, PathJoin(<<sdkPath, <<"platform-tools">>>>))

\* _isValidSdkLocation(sdkPath)
IsValidSdkLocation(f, sdkPath, plat) ==
    LET platformToolsPath == PathJoin(<<sdkPath, <<"platform-tools">>>>)
        adbPath == PathJoin(<<platformToolsPath, <<"adb">> \o ExeSuffix(plat)>>)
        hasAdb == exists(f, adbPath)
        hasToolsDir == exists(f, PathJoin(<<sdkPath, <<"tools">>>>))
        hasPlatformToolsDir == exists(f, platformToolsPath)
        hasEmulatorDir == exists(f, PathJoin(<<sdkPath, <<"emulator">>>>))
    IN  hasAdb \/ (hasPlatformToolsDir /\ (hasToolsDir \/ hasEmulatorDir))

\* process.env[name] || fallback
EnvOr(e, name, fallback) == IF e[name] # <<>> THEN e[name] ELSE fallback

\* lines 165-166: the defaults of the two program-files directories
DefaultProgramFiles == <<"C:", "/", "Program Files">>
DefaultProgramFilesX86 == <<"C:", "/", "Program Files (x86)">>

\* lines 165-187: the Android Studio installation directories looked for on
\* Windows; reg is the path the registry query yielded (<<>> when it failed
\* or its output did not match)
androidStudioPaths(e, reg) ==
    LET programFilesDir == EnvOr(e, "ProgramFiles", DefaultProgramFiles)
        programFilesX86Dir == EnvOr(e, "ProgramFiles(x86)", DefaultProgramFilesX86)
    IN  << PathJoin(<<programFilesDir, <<"Android">>, <<"Android Studio">>>>),
           PathJoin(<<programFilesX86Dir, <<"Android">>, <<"Android Studio">>>>),
           PathJoin(<<programFilesDir, <<"Android Studio">>>>),
           PathJoin(<<programFilesX86Dir, <<"Android Studio">>>>) >>
        \o (IF reg # <<>> THEN <<reg>> ELSE <<>>)

\* lines 195-199: where the SDK may be relative to an Android Studio directory
possibleSdkPaths(studioPath) ==
    << PathJoin(<<studioPath, <<"Sdk">>>>),
       PathJoin(<<PathDirname(studioPath), <<"Sdk">>>>),
       PathJoin(<<PathDirname(PathDirname(studioPath)), <<"Sdk">>>>) >>

RECURSIVE StudioSdkLocations(_, _)
\* lines 190-203: the SDK locations of every Android Studio directory that exists
StudioSdkLocations(f, studioPaths) ==
    IF studioPaths = <<>> THEN <<>>
    ELSE (IF exists(f, Head(studioPaths)) THEN possibleSdkPaths(Head(studioPaths))
          ELSE <<>>)
         \o StudioSdkLocations(f, Tail(studioPaths))

\* lines 209-213: the locations under the user's home directory (Windows)
HomeAndroidSdk == PathJoin(<<HomeDir, <<".android">>, <<"sdk">>>>)
HomeAppDataSdk ==
    PathJoin(<<HomeDir, <<"AppData">>, <<"Local">>, <<"Android">>, <<"sdk">>>>)

\* lines 149-228: possibleLocations, not yet expanded
possibleLocations(plat, e, f, reg) ==
    IF plat = "win32"
    THEN << <<"%", "LOCALAPPDATA", "%", "/", "Android", "/", "Sdk">>,
            <<"%", "ANDROID_HOME", "%">>,
            <<"%", "ANDROID_SDK_ROOT", "%">>,
            <<"C:", "/", "Android", "/", "Sdk">> >>
         \o StudioSdkLocations(f, androidStudioPaths(e, reg))
         \o << HomeAndroidSdk, HomeAppDataSdk >>
    ELSE IF plat = "darwin"
    THEN << <<"~", "/", "Library", "/", "Android", "/", "sdk">>,
            <<"$", "ANDROID_HOME">>,
            <<"$", "ANDROID_SDK_ROOT">> >>
    ELSE << <<"~", "/", "Android", "/", "Sdk">>,
            <<"$", "ANDROID_HOME">>,
            <<"$", "ANDROID_SDK_ROOT">>,
            <<"/", "opt", "/", "android-sdk">> >>

\* lines 271-273: the default Windows SDK directory
androidAppData == PathJoin(<<HomeDir, <<"AppData">>, <<"Local">>, <<"Android">>>>)
possibleSdkDir == PathJoin(<<androidAppData, <<"Sdk">>>>)

\* a candidate SDK root and the place of the code that considers it
Candidate(path, via) == [path |-> path, via |-> via]

\* lines 230-242: the environment variables that are set, as candidates
EnvCandidates(e) ==
    (IF e["ANDROID_HOME"] # <<>>
     THEN <<Candidate(e["ANDROID_HOME"], "ANDROID_HOME")>> ELSE <<>>)
    \o (IF e["ANDROID_SDK_ROOT"] # <<>>
        THEN <<Candidate(e["ANDROID_SDK_ROOT"], "ANDROID_SDK_ROOT")>> ELSE <<>>)

RECURSIVE ExpandedCandidates(_, _)
\* lines 245-246: each location, expanded, as a candidate
ExpandedCandidates(locs, e) ==
    IF locs = <<>> THEN <<>>
    ELSE <<Candidate(expandEnvVars(Head(locs), e), "location")>>
         \o ExpandedCandidates(Tail(locs), e)

\* lines 245-246: the conventional locations, expanded, as candidates
LocationCandidates(plat, e, f, reg) ==
    ExpandedCandidates(possibleLocations(plat, e, f, reg), e)

\* lines 262-282: the default location, looked at only on Windows when the
\* definitions directory and the Android application-data directory exist
DefaultCandidates(plat, f) ==
    IF exists(f, AvdHomeCandidate) /\ plat = "win32" /\ exists(f, androidAppData)
    THEN <<Candidate(possibleSdkDir, "default")>> ELSE <<>>

\* the candidates in the order the code considers them
DetectCandidates(plat, e, f, reg) ==
    EnvCandidates(e) \o LocationCandidates(plat, e, f, reg) \o DefaultCandidates(plat, f)

\* lines 234, 239: a root named by an environment variable is accepted when it exists
EnvRootAccepted(f, path, plat) == exists(f, path)

\* lines 250-252, 274-275: any other root is accepted when it exists and is valid
LocationAccepted(f, path, plat) == exists(f, path) /\ IsValidSdkLocation(f, path, plat)

Accepted(f, c, plat) ==
    IF c.via \in {"ANDROID_HOME", "ANDROID_SDK_ROOT"}
    THEN EnvRootAccepted(f, c.path, plat)
    ELSE LocationAccepted(f, c.path, plat)

\* mutant: acceptance does not end the search, every candidate is probed
DetectLoop_NoReturn(f, cands, plat) == cands

RECURSIVE DetectLoop(_, _, _)
\* the candidates probed, in order: up to and including the first accepted one
\* (each acceptance is followed by `return await this._configureSdkPath(...)`)
DetectLoop(f, cands, plat) ==
    IF cands = <<>> THEN <<>>
    ELSE IF Accepted(f, Head(cands), plat) THEN <<Head(cands)>>
    ELSE <<Head(cands)>> \o DetectLoop(f, Tail(cands), plat)

\* _configureSdkPath(sdkPath): the new configuration and the value returned;
\* updateOk is whether config.update resolved
ConfigureSdkPath(cfg, sdkPath, updateOk) ==
    IF updateOk
    THEN [ config |-> [cfg EXCEPT !.sdkPath = sdkPath],
           result |-> [sdkPath |-> sdkPath, hasPath |-> TRUE, success |-> TRUE] ]
    ELSE [ config |-> cfg,
           result |-> [sdkPath |-> sdkPath, hasPath |-> TRUE, success |-> FALSE] ]

\* lines 236, 241, 254, 277, 284-285: what the call returns once the loop over
\* the candidates has ended with `probed`
DetectOutcome(cfg, probed, f, plat, updateOk) ==
    IF probed # <<>> /\ Accepted(f, probed[Len(probed)], plat)
    THEN [ probed |-> probed,
           config |-> ConfigureSdkPath(cfg, probed[Len(probed)].path, updateOk).config,
           result |-> ConfigureSdkPath(cfg, probed[Len(probed)].path, updateOk).result ]
    ELSE [ probed |-> probed, config |-> cfg,
           result |-> [sdkPath |-> <<>>, hasPath |-> FALSE, success |-> FALSE] ]

\* _autoDetectSdkPaths(): the candidates probed, the new configuration and
\* the value returned
AutoDetectSdkPaths(cfg, plat, e, f, reg, updateOk) ==
    DetectOutcome(cfg, DetectLoop(f, DetectCandidates(plat, e, f, reg), plat),
                  f, plat, updateOk)

\* the value of `detected` before any call
NoDetect == [ probed |-> <<>>, reg |-> <<>>,
              result |-> [sdkPath |-> <<>>, hasPath |-> FALSE, success |-> FALSE] ]

-----------------------------------------------------------------------------
(* _getAvailableAvds, _normalizeAvdName and _getRunningEmulators             *)
(* (DefinitionEnumerator, RunningInstanceCorrelator, reconciliation).        *)
(* Names are written one character per token; ".ini", ".avd", "config",      *)
(* "OK" and the words of command lines are tokens of their own.              *)

\* \s of the regular expressions, and what String.prototype.trim removes
Whitespace == {" ", "\t", "\r", "\n"}

\* the quote characters of the console regular expressions
Quotes == {"'", "\""}

RECURSIVE TrimStart(_)
TrimStart(s) ==
    IF s # <<>> /\ Head(s) \in Whitespace THEN TrimStart(Tail(s)) ELSE s

RECURSIVE TrimEnd(_)
TrimEnd(s) ==
    IF s # <<>> /\ s[Len(s)] \in Whitespace
    THEN TrimEnd(SubSeq(s, 1, Len(s) - 1)) ELSE s

\* String.prototype.trim
Trim(s) == TrimEnd(TrimStart(s))

\* String.prototype.toLowerCase, token by token
LowerCase(c) ==
    CASE c = "A" -> "a"
      [] c = "OK" -> "ok"
      [] OTHER -> c

\* replace(/[^\w\d]/g, '') on one token: what is left of it
WordChars(c) ==
    CASE c = ".ini" -> <<"ini">>
      [] c = ".avd" -> <<"avd">>
      [] c \in Whitespace \cup Quotes \cup {"-", "."} -> <<>>
      [] OTHER -> <<c>>

\* a normalization without toLowerCase
normalizeAvdName_KeepsCase(name) ==
    LET trimmed == Trim(name)
        joined == SelectSeq(trimmed, LAMBDA c : c \notin Whitespace \cup {"_", "-"})
    IN  Flatten([i \in 1..Len(joined) |-> WordChars(joined[i])])

\* _normalizeAvdName(name)
normalizeAvdName(name) ==
    LET trimmed == Trim(name)
        lowered == [i \in 1..Len(trimmed) |-> LowerCase(trimmed[i])]
        joined == SelectSeq(lowered, LAMBDA c : c \notin Whitespace \cup {"_", "-"})
    IN  Flatten([i \in 1..Len(joined) |-> WordChars(joined[i])])

\* String.prototype.includes
Includes(s, part) ==
    \E i \in 0..(Len(s) - Len(part)) : SubSeq(s, i + 1, i + Len(part)) = part

\* String.prototype.endsWith, for a suffix that is one token
EndsWith(s, suffix) == s # <<>> /\ s[Len(s)] = suffix

\* String.prototype.replace(token, ''): the first occurrence is removed
ReplaceFirst(s, token) ==
    IF IndexOf(s, token) = 0 THEN s
    ELSE SubSeq(s, 1, IndexOf(s, token) - 1) \o SubSeq(s, IndexOf(s, token) + 1, Len(s))

\* the outcome of an exec call: it rejected (spawn failure, non-zero exit,
\* timeout), or it resolved with the standard output
ExecFailed == [ok |-> FALSE, stdout |-> <<>>]
ExecOutcomes(outputs) == {ExecFailed} \cup { [ok |-> TRUE, stdout |-> o] : o \in outputs }

\* lines 456-460: the names in the output of emulator -list-avd
ParseListAvd(stdout) ==
    IF Trim(stdout) = <<>> THEN <<>>
    ELSE LET lines == SplitOn(stdout, "\n")
         IN  SelectSeq([i \in 1..Len(lines) |-> Trim(lines[i])], LAMBDA l : Len(l) > 0)

\* lines 479-483: the names the directory scan derives from the file names
ScanNames(files) ==
    LET avdFiles == SelectSeq(files, LAMBDA file : EndsWith(file, ".ini"))
    IN  SelectSeq([i \in 1..Len(avdFiles) |-> ReplaceFirst(avdFiles[i], ".ini")],
                  LAMBDA name : name # <<"config">>)

\* line 494: the explanation returned when nothing was enumerated
NoDevicesMsg ==
    [text |-> "No Android virtual devices found. Create some using Android Studio.",
     path |-> <<>>]

\* mutant: an empty enumeration is not noticed
NoDevicesFound_Never(avdList) == FALSE

\* line 492: avdList.length === 0
NoDevicesFound(avdList) == Len(avdList) = 0

\* the port tokens (\d+) of the instance ids
Ports == <<"5554", "5556", "5558", "5560">>

\* mutant: an instance counts as running whatever state adb reports for it
EmulatorIdOf_AnyState(line) ==
    IF Len(line) >= 4 /\ line[1] = "emulator-" /\ line[2] \in Range(Ports)
    THEN <<line[1], line[2]>> ELSE <<>>

\* line 588: line.match(/^(emulator-\d+)\s+device/), the id when it matches
EmulatorIdOf(line) ==
    IF /\ Len(line) >= 4
       /\ line[1] = "emulator-"
       /\ line[2] \in Range(Ports)
       /\ line[3] \in Whitespace
       /\ TrimStart(SubSeq(line, 3, Len(line))) # <<>>
       /\ Head(TrimStart(SubSeq(line, 3, Len(line)))) = "device"
    THEN <<line[1], line[2]>> ELSE <<>>

\* lines 584-594: the ids of the running instances, in the order of the lines
RunningEmulatorIds(devicesOutput) ==
    LET deviceLines == SplitOn(devicesOutput, "\n")
    IN  SelectSeq([i \in 1..Len(deviceLines) |-> EmulatorIdOf(deviceLines[i])],
                  LAMBDA id : id # <<>>)

\* line 603: emulatorId.split('-')[1]
PortOf(emulatorId) == emulatorId[2]

\* Map.prototype.set on a map kept as its entries in insertion order
MapSet(m, name, id) ==
    IF \E i \in 1..Len(m) : m[i].name = name
    THEN [i \in 1..Len(m) |-> IF m[i].name = name THEN [name |-> name, id |-> id] ELSE m[i]]
    ELSE Append(m, [name |-> name, id |-> id])

\* a strategy that keeps the output as printed once it is not blank
StdoutName_AsPrinted(r) == IF r.ok /\ Trim(r.stdout) # <<>> THEN r.stdout ELSE <<>>

\* lines 610-611, 624-625: stdout && stdout.trim(), then the trimmed output
StdoutName(r) == IF r.ok THEN Trim(r.stdout) ELSE <<>>

RECURSIVE NonSpaceRun(_)
\* length of the longest prefix of s without whitespace (\S+, greedy)
NonSpaceRun(s) ==
    IF s # <<>> /\ Head(s) \notin Whitespace THEN 1 + NonSpaceRun(Tail(s)) ELSE 0

RECURSIVE AvdFlagFrom(_, _)
\* line.match(/-avd\s+(\S+)/)[1] searched from position i, <<>> without a match
AvdFlagFrom(line, i) ==
    IF i > Len(line) THEN <<>>
    ELSE LET rest == SubSeq(line, i + 1, Len(line))
             arg == TrimStart(rest)
         IN  IF line[i] = "-avd" /\ Len(arg) < Len(rest) /\ NonSpaceRun(arg) > 0
             THEN SubSeq(arg, 1, NonSpaceRun(arg))
             ELSE AvdFlagFrom(line, i + 1)

AvdFlagName(line) == AvdFlagFrom(line, 1)

\* lines 642-656: the name the Windows process listing gives for a port
TasklistName(r, port) ==
    LET lines == IF r.ok THEN SplitOn(r.stdout, "\n") ELSE <<>>
        hits == SelectSeq(lines, LAMBDA line : \/ Includes(line, <<"emulator-", port>>)
                                                \/ Includes(line, <<"-avd">>))
    IN  IF hits = <<>> THEN <<>> ELSE Trim(AvdFlagName(hits[1]))

\* lines 669-681: the name the ps listing gives for a port
PsName(r, port) ==
    LET lines == IF r.ok THEN SplitOn(r.stdout, "\n") ELSE <<>>
        relevantProcesses ==
            SelectSeq(lines, LAMBDA line : \/ Includes(line, <<"-port", " ", port>>)
                                           \/ Includes(line, <<"emulator-", port>>))
        named == SelectSeq(relevantProcesses, LAMBDA process : AvdFlagName(process) # <<>>)
    IN  IF named = <<>> THEN <<>> ELSE Trim(AvdFlagName(named[1]))

\* ['"]?(\s|$) at the start of s
ClosesCapture(s) ==
    \/ s = <<>>
    \/ Head(s) \in Whitespace
    \/ Head(s) \in Quotes /\ (Tail(s) = <<>> \/ Head(Tail(s)) \in Whitespace)

RECURSIVE LazyCapture(_, _)
\* ([^'"]+?)['"]?(\s|$) at the start of s, trying captures of n tokens and
\* more: the capture, or <<>> when none fits
LazyCapture(s, n) ==
    IF n > Len(s) \/ s[n] \in Quotes THEN <<>>
    ELSE IF ClosesCapture(SubSeq(s, n + 1, Len(s))) THEN SubSeq(s, 1, n)
    ELSE LazyCapture(s, n + 1)

RECURSIVE AfterSpaces(_, _)
\* \s+['"]?([^'"]+?)['"]?(\s|$) at the start of s with \s+ taking k tokens
\* or fewer (greedy, backtracking): the capture, or <<>> without a match
AfterSpaces(s, k) ==
    IF k < 1 THEN <<>>
    ELSE LET rest == SubSeq(s, k + 1, Len(s))
             unquoted == IF rest # <<>> /\ Head(rest) \in Quotes THEN Tail(rest) ELSE rest
         IN  IF LazyCapture(unquoted, 1) # <<>> THEN LazyCapture(unquoted, 1)
             ELSE AfterSpaces(s, k - 1)

RECURSIVE ConsoleMatchFrom(_, _, _)
\* output.match(/<word>\s+['"]?([^'"]+?)['"]?(\s|$)/i)[1] searched from
\* position i, for a word that is one of the tokens in words
ConsoleMatchFrom(output, words, i) ==
    IF i > Len(output) THEN <<>>
    ELSE LET rest == SubSeq(output, i + 1, Len(output))
             spaces == Len(rest) - Len(TrimStart(rest))
         IN  IF output[i] \in words /\ AfterSpaces(rest, spaces) # <<>>
             THEN AfterSpaces(rest, spaces)
             ELSE ConsoleMatchFrom(output, words, i + 1)

\* lines 711-721: the name read from the console output
TelnetName(r) ==
    LET first == ConsoleMatchFrom(r.stdout, {"avd name"}, 1)
        second == ConsoleMatchFrom(r.stdout, {"OK", "ok"}, 1)
        nameMatches == IF first # <<>> THEN first ELSE second
        avdName == Trim(nameMatches)
    IN  IF r.ok /\ avdName # <<"OK">> THEN avdName ELSE <<>>

\* mutant: the partial-match rule is missing
StatusOf_NoPartial(name, runningMap) ==
    IF \/ \E i \in 1..Len(runningMap) :
              normalizeAvdName(runningMap[i].name) = normalizeAvdName(name)
       \/ \E i \in 1..Len(runningMap) : runningMap[i].name = name
    THEN "running" ELSE "stopped"

\* lines 519-548: the status reconciliation gives a definition
StatusOf(name, runningMap) ==
    LET normalizedRunningMap ==
            { normalizeAvdName(runningMap[i].name) : i \in 1..Len(runningMap) }
    IN  IF normalizeAvdName(name) \in normalizedRunningMap THEN "running"
        ELSE IF \E i \in 1..Len(runningMap) : runningMap[i].name = name THEN "running"
        ELSE IF \E i \in 1..Len(runningMap) :
                    \/ Includes(runningMap[i].name, name)
                    \/ Includes(name, runningMap[i].name)
        THEN "running"
        ELSE "stopped"

\* a reconciliation whose first lookup uses the recovered names as they are
\* (line 514 without _normalizeAvdName)
RulesEvaluated_KeysAsRecovered(name, runningMap) ==
    IF \E i \in 1..Len(runningMap) : runningMap[i].name = normalizeAvdName(name)
    THEN <<"normalized">>
    ELSE IF \E i \in 1..Len(runningMap) : runningMap[i].name = name
    THEN <<"normalized", "exact">>
    ELSE <<"normalized", "exact", "substring">>

\* lines 519-540: the match rules the reconciliation evaluates for a
\* definition, in the order it evaluates them: the lookup of the normalized
\* name (519), the lookup of the name itself (524), the search for a partial
\* match (531-532)
RulesEvaluated(name, runningMap) ==
    LET normalizedRunningMap ==
            { normalizeAvdName(runningMap[i].name) : i \in 1..Len(runningMap) }
    IN  IF normalizeAvdName(name) \in normalizedRunningMap THEN <<"normalized">>
        ELSE IF \E i \in 1..Len(runningMap) : runningMap[i].name = name
        THEN <<"normalized", "exact">>
        ELSE <<"normalized", "exact", "substring">>

\* lines 498-551: the definitions with their reconciled status
Reconcile(avdList, runningMap) ==
    [i \in 1..Len(avdList) |->
        [name |-> avdList[i], status |-> StatusOf(avdList[i], runningMap)]]

\* the strategies of _getRunningEmulators, by the handler position at which
\* each is invoked
StrategyPc == <<"emuAvdName", "getprop", "processes", "console">>

\* mutant: a strategy that recovered a name does not end the instance's turn
NextPosition_NoContinue(c, k, name) ==
    IF k < 4 THEN StrategyPc[k + 1]
    ELSE IF c.idx = Len(c.runningEmulators) THEN "done" ELSE "emuAvdName"

\* lines 602-731: where the handler goes after strategy k recovered `name`
\* (<<>> when it recovered nothing) for the instance at c.idx: a name, or the
\* last strategy, ends the instance's turn (continue / end of the loop body)
NextPosition(c, k, name) ==
    IF name = <<>> /\ k < 4 THEN StrategyPc[k + 1]
    ELSE IF c.idx = Len(c.runningEmulators) THEN "done" ELSE "emuAvdName"

\* the correlation state once strategy k has been invoked for the instance at
\* c.idx, its command ended as r and it recovered `name` (<<>> when it
\* recovered nothing); threw is whether that command failed
Attempted(c, k, r, name) ==
    [c EXCEPT !.invoked = Append(@, [strategy |-> k, yielded |-> name # <<>>]),
              !.threw = ~r.ok,
              !.runningMap = IF name # <<>>
                             THEN MapSet(@, name, c.runningEmulators[c.idx]) ELSE @]

\* line 684: a key of the map whose value is the instance id, <<>> without one
KeyFor(m, id) ==
    IF \E i \in 1..Len(m) : m[i].id = id
    THEN m[CHOOSE i \in 1..Len(m) : m[i].id = id].name ELSE <<>>

\* the values of the list-devices variables before any call
NoEnumeration == [primary |-> "none", stdout |-> <<>>,
                  scan |-> "none", files |-> <<>>, avdList |-> <<>>]
NoCorrelation == [adb |-> "none", devicesOutput |-> <<>>, runningEmulators |-> <<>>,
                  idx |-> 0, invoked |-> <<>>, threw |-> FALSE, runningMap |-> <<>>]
NoResponse == [sent |-> FALSE, avds |-> <<>>, error |-> <<>>]

\* the values of `answers`, `suspended` and `alone` where a single call runs
NoAnswers == <<>>
NoCall == [pc |-> "none"]
NoReference == [known |-> FALSE, response |-> NoResponse]

\* the value of `session` before any message was handled
NoSession == [handled |-> 0, located |-> FALSE,
              config |-> [sdkPath |-> <<>>, emulatorPath |-> <<>>, adbPath |-> <<>>],
              tools |-> NoTools]

\* lines 112-116: the message posted with the result of _getAvailableAvds
ErrorResponse(error) == [sent |-> TRUE, avds |-> <<>>, error |-> error]
ListResponse(avdList, runningMap) ==
    [sent |-> TRUE, avds |-> Reconcile(avdList, runningMap), error |-> <<>>]

-----------------------------------------------------------------------------
(* _launchAvd and _launchEmulatorFallback (Launcher).  What the handler     *)
(* does is kept as the sequence of its events, in the order they happen:    *)
(* log lines, calls of cp.exec / cp.spawn with the executable the command   *)
(* runs, the way each call ended, and the notifications shown.              *)

\* an event: its kind, its text (the message's fixed part, or the strategy
\* of a call), the executable a command runs, the definition it names and
\* the locator's error it quotes
Event(kind, text, path, name, error) ==
    [kind |-> kind, text |-> text, path |-> path, name |-> name, error |-> error]

\* log(...)
LogLine(text) == Event("log", text, <<>>, <<>>, <<>>)

\* vscode.window.showErrorMessage(...)
ErrorMessage(text) == Event("error", text, <<>>, <<>>, <<>>)

\* line 764: showErrorMessage(`Failed to launch emulator: ${error}`)
LocatorErrorMessage(error) == Event("error", "Failed to launch emulator: ", <<>>, <<>>, error)

\* vscode.window.showInformationMessage(`Launching Android emulator: ${avdName}`)
InformationMessage(name) ==
    Event("information", "Launching Android emulator: ", <<>>, name, <<>>)

\* cp.exec(command, ...) / cp.spawn(...): the strategy, the executable the
\* command runs and the name after -avd
SpawnCall(strategy, program, name) == Event("call", strategy, program, name, <<>>)

\* how a call ended: "threw" (the call itself threw), "failed" (the callback
\* got an error), "ok" (the callback got none)
CallEnded(strategy, how) == Event(how, strategy, <<>>, <<>>, <<>>)

\* line 785: path.join(sdkPath, 'emulator', 'emulator.exe')
emulatorExe(sdkPath) == PathJoin(<<sdkPath, <<"emulator">>, <<"emulator", ".exe">>>>)

\* line 855: path.join(sdkPath, 'emulator')
emulatorDir(sdkPath) == PathJoin(<<sdkPath, <<"emulator">>>>)

\* lines 858, 868: cd /d "<dir>" && emulator.exe ...: the executable that runs
RunIn(dir) == PathJoin(<<dir, <<"emulator", ".exe">>>>)

\* the value of `launch` before any request
NoLaunch == [avdName |-> <<>>, sdkPath |-> <<>>, events |-> <<>>]

\* lines 866-880: fallback method 2, cp.spawn('cmd.exe', ...); spawnThrew is
\* whether the call throws
FallbackMethod2(sdkPath, avdName, spawnThrew) ==
    <<LogLine("Trying fallback method 2: spawn with shell"),
      SpawnCall("spawn", RunIn(emulatorDir(sdkPath)), avdName)>>
    \o (IF spawnThrew
        THEN <<CallEnded("spawn", "threw"), LogLine("Fallback method 2 failed: "),
               ErrorMessage("Failed to launch Android emulator: ")>>
        ELSE <<LogLine("Fallback method 2 executed")>>)

\* lines 851-861, 885-888: _launchEmulatorFallback up to the call of cp.exec
\* for method 1; execThrew is whether that call throws
LaunchEmulatorFallback(sdkPath, avdName, execThrew) ==
    <<LogLine("Trying fallback launch method for AVD: "),
      LogLine("Executing fallback command: "),
      SpawnCall("start", RunIn(emulatorDir(sdkPath)), avdName)>>
    \o (IF execThrew
        THEN <<CallEnded("start", "threw"), LogLine("All fallback methods failed: "),
               ErrorMessage("Failed to launch Android emulator after trying all methods: ")>>
        ELSE <<>>)

\* lines 861-884: the callback of method 1
FallbackCallback(sdkPath, avdName, ok, spawnThrew) ==
    IF ok THEN <<CallEnded("start", "ok"), LogLine("Fallback method 1 succeeded")>>
    ELSE <<CallEnded("start", "failed"), LogLine("Fallback method 1 failed: ")>>
         \o FallbackMethod2(sdkPath, avdName, spawnThrew)

\* lines 770-810: the Windows branch up to the return of _launchAvd;
\* execThrew / fallbackThrew: whether the call of cp.exec throws
WindowsLaunch(sdkPath, avdName, execThrew, fallbackThrew) ==
    IF sdkPath = <<>>
    THEN <<ErrorMessage("Unable to launch emulator: Android SDK path not configured. Please use \"Auto-Detect SDK\" or configure the SDK path manually.")>>
    ELSE <<LogLine("Launching Windows emulator for AVD: "),
           LogLine("Executing emulator directly: "),
           SpawnCall("primary", emulatorExe(sdkPath), avdName)>>
         \o (IF execThrew
             THEN <<CallEnded("primary", "threw"),
                    LogLine("Error in primary launch method: ")>>
                  \o LaunchEmulatorFallback(sdkPath, avdName, fallbackThrew)
             ELSE <<InformationMessage(avdName)>>)

\* mutant: the primary's failure is not logged before the fallback is tried
WindowsCallback_NoLog(sdkPath, avdName, ok, fallbackThrew) ==
    IF ok THEN <<CallEnded("primary", "ok"), LogLine("Emulator launch initiated: "),
                 LogLine("Stdout: ")>>
    ELSE <<CallEnded("primary", "failed")>>
         \o LaunchEmulatorFallback(sdkPath, avdName, fallbackThrew)

\* lines 790-803: the callback of the Windows primary call
WindowsCallback(sdkPath, avdName, ok, fallbackThrew) ==
    IF ok THEN <<CallEnded("primary", "ok"), LogLine("Emulator launch initiated: "),
                 LogLine("Stdout: ")>>
    ELSE <<CallEnded("primary", "failed"), LogLine("Error launching emulator: "),
           LogLine("Stderr: ")>>
         \o LaunchEmulatorFallback(sdkPath, avdName, fallbackThrew)

\* lines 843-847: the catch around the whole of _launchAvd
LaunchCatch ==
    <<LogLine("Failed to launch Android emulator: "),
      ErrorMessage("Failed to launch Android emulator: ")>>

\* lines 811-841: the macOS and Linux branches up to the return of
\* _launchAvd.  `command` is assigned without ever being declared:
\* assignable is whether the build lets the assignment through (sloppy
\* mode) or it throws a ReferenceError (strict mode), which the catch of
\* line 843 reports
UnixLaunch(plat, emulator, avdName, assignable, execThrew) ==
    IF ~assignable THEN LaunchCatch
    ELSE <<SpawnCall(IF plat = "darwin" THEN "osascript" ELSE "x-terminal-emulator",
                     emulator, avdName)>>
         \o (IF execThrew
             THEN <<CallEnded(IF plat = "darwin" THEN "osascript" ELSE "x-terminal-emulator",
                              "threw")>> \o LaunchCatch
             ELSE <<>>)

\* lines 815-824, 830-839: the callback of the macOS / Linux call
UnixCallback(plat, avdName, ok) ==
    IF ok THEN <<CallEnded(IF plat = "darwin" THEN "osascript" ELSE "x-terminal-emulator", "ok"),
                 LogLine("Launching Android emulator: "), InformationMessage(avdName)>>
    ELSE <<CallEnded(IF plat = "darwin" THEN "osascript" ELSE "x-terminal-emulator", "failed"),
           LogLine("Failed to launch AVD: "), ErrorMessage("Failed to launch AVD: ")>>

\* mutant: the locator's error does not stop the launch
LaunchAvd_IgnoresError(t, cfg, e, plat, avdName, assignable, execThrew, fallbackThrew) ==
    IF plat = "win32"
    THEN WindowsLaunch(expandEnvVars(cfg.sdkPath, e), avdName, execThrew, fallbackThrew)
    ELSE UnixLaunch(plat, t.paths.emulator, avdName, assignable, execThrew)

\* lines 759-848: _launchAvd up to its return, given what _findAndroidTools
\* returned
LaunchAvd(t, cfg, e, plat, avdName, assignable, execThrew, fallbackThrew) ==
    IF t.error # <<>>
    THEN <<LocatorErrorMessage(t.error)>>
    ELSE IF plat = "win32"
    THEN WindowsLaunch(expandEnvVars(cfg.sdkPath, e), avdName, execThrew, fallbackThrew)
    ELSE UnixLaunch(plat, t.paths.emulator, avdName, assignable, execThrew)

\* the call whose callback the handler waits for after these events: the
\* last call made by cp.exec that has not ended; "done" without one
Pending(events) ==
    LET calls == { i \in 1..Len(events) : events[i].kind = "call" /\ events[i].text # "spawn" }
        open == { i \in calls : \A j \in (i + 1)..Len(events) :
                                   ~(events[j].kind \in {"threw", "failed", "ok"}
                                     /\ events[j].text = events[i].text) }
    IN  IF open = {} THEN "done" ELSE events[CHOOSE i \in open : TRUE].text

-----------------------------------------------------------------------------
(* The environments the model explores. *)

\* at most this many paths exist in the filesystem
MaxFiles == 3

SdkDir == <<"/", "sdk">>

SdkPathSettings == { <<>>, SdkDir, <<"$", "ANDROID_HOME">>, <<"$", "UNSET">> }
EmulatorPathSettings == { <<>>, <<"/", "opt", "/", "emu">>, <<"~", "/", "emu">> }
AdbPathSettings == { <<>>, <<"/", "opt", "/", "adb">> }

Configs == [ sdkPath : SdkPathSettings,
             emulatorPath : EmulatorPathSettings,
             adbPath : AdbPathSettings ]

\* process.env with ANDROID_HOME unset or naming the SDK directory
LocateEnvs == { [n \in EnvNames |-> IF n = "ANDROID_HOME" THEN h ELSE <<>>] :
                h \in {<<>>, SdkDir} }

\* the paths _findAndroidTools can probe on a platform
LocateUniverse(plat) ==
    {AvdHomeCandidate}
    \cup { PathJoin(<<HomeDir, <<"emu">>>>), <<"/", "opt", "/", "emu">>,
           <<"/", "opt", "/", "adb">> }
    \cup Range(possibleEmulatorLocations(SdkDir, plat))
    \cup Range(possibleAdbLocations(SdkDir, plat))
    \cup (IF plat = "win32" THEN {winEmulatorScript(SdkDir)} ELSE {})

RECURSIVE SubsetsUpTo(_, _)
\* the subsets of U with at most k elements
SubsetsUpTo(U, k) ==
    IF k = 0 THEN {{}}
    ELSE LET smaller == SubsetsUpTo(U, k - 1)
         IN  smaller \cup { s \cup {x} : s \in smaller, x \in U }

Filesystems(universe) == SubsetsUpTo(universe, MaxFiles)

-----------------------------------------------------------------------------
(* locate: one call of _findAndroidTools. *)

vars == <<message, platform, config, fs, env, pc, tools, detected,
          enumeration, correlation, response, launch, answers, suspended, alone,
          argument, returned, session>>

InitLocate ==
    /\ message = ""
    /\ platform \in Platforms
    /\ config \in Configs
    /\ env \in LocateEnvs
    /\ fs \in Filesystems(LocateUniverse(platform))
    /\ pc = "idle"
    /\ tools = NoTools
    /\ detected = NoDetect
    /\ enumeration = NoEnumeration
    /\ correlation = NoCorrelation
    /\ response = NoResponse
    /\ launch = NoLaunch
    /\ answers = NoAnswers
    /\ suspended = NoCall
    /\ alone = NoReference
    /\ argument = <<>>
    /\ returned = <<>>
    /\ session = NoSession

Locate ==
    /\ pc = "idle"
    /\ tools' = FindAndroidTools(config, fs, env, platform)
    /\ pc' = "located"
    /\ UNCHANGED <<argument, returned, session, answers, suspended, alone, message, platform, config, fs, env, detected, enumeration, correlation, response, launch>>

NextLocate == Locate

SpecLocate == InitLocate /\ [][NextLocate]_vars

-----------------------------------------------------------------------------
(* detect: one call of _autoDetectSdkPaths. *)

\* at most this many paths (with the directories above them) exist when
\* detect runs
MaxDirs == 2

SdkDir2 == <<"/", "sdk2">>
LocalAppData == PathJoin(<<HomeDir, <<"AppData">>, <<"Local">>>>)
RegistryStudio == <<"D:", "/", "Studio">>

\* process.env: each of the two SDK variables unset or naming a directory,
\* and on Windows LOCALAPPDATA unset or naming the usual directory
DetectEnvs(plat) ==
    { [n \in EnvNames |->
          CASE n = "ANDROID_HOME" -> h
            [] n = "ANDROID_SDK_ROOT" -> r
            [] n = "LOCALAPPDATA" -> l
            [] OTHER -> <<>>] :
      h \in {<<>>, SdkDir}, r \in {<<>>, SdkDir2},
      l \in IF plat = "win32" THEN {<<>>, LocalAppData} ELSE {<<>>} }

\* what the registry query can yield: nothing, or an installation path
RegistryOutcomes(plat) == IF plat = "win32" THEN {<<>>, RegistryStudio} ELSE {<<>>}

\* an SDK root and paths below it that _isValidSdkLocation looks at
SdkLayout(root, plat) ==
    { root,
      PathJoin(<<root, <<"platform-tools">>>>),
      PathJoin(<<root, <<"platform-tools">>, <<"adb">> \o ExeSuffix(plat)>>),
      PathJoin(<<root, <<"emulator">>>>) }

\* the SDK roots the explored filesystems can hold
DetectRoots(plat) ==
    {SdkDir, SdkDir2}
    \cup (IF plat = "win32"
          THEN { possibleSdkDir, PathJoin(<<RegistryStudio, <<"Sdk">>>>) }
          ELSE IF plat = "darwin"
          THEN { PathJoin(<<HomeDir, <<"Library">>, <<"Android">>, <<"sdk">>>>) }
          ELSE { PathJoin(<<HomeDir, <<"Android">>, <<"Sdk">>>>),
                 <<"/", "opt", "/", "android-sdk">> })

DetectUniverse(plat) ==
    {AvdHomeCandidate}
    \cup UNION { SdkLayout(r, plat) : r \in DetectRoots(plat) }
    \cup (IF plat = "win32"
          THEN { PathJoin(<<DefaultProgramFiles, <<"Android">>, <<"Android Studio">>>>),
                 RegistryStudio }
          ELSE {})

DetectConfigs ==
    { [sdkPath |-> sp, emulatorPath |-> <<>>, adbPath |-> <<>>] :
      sp \in {<<>>, <<"/", "old">>} }

InitDetect ==
    /\ message = "detectSdk"
    /\ platform \in Platforms
    /\ config \in DetectConfigs
    /\ env \in DetectEnvs(platform)
    /\ fs \in SubsetsUpTo(DetectUniverse(platform), MaxDirs)
    /\ pc = "idle"
    /\ tools = NoTools
    /\ detected = NoDetect
    /\ enumeration = NoEnumeration
    /\ correlation = NoCorrelation
    /\ response = NoResponse
    /\ launch = NoLaunch
    /\ answers = NoAnswers
    /\ suspended = NoCall
    /\ alone = NoReference
    /\ argument = <<>>
    /\ returned = <<>>
    /\ session = NoSession

\* the handler's effect, given what _autoDetectSdkPaths did and what the
\* registry query had yielded
DetectReturns(r, reg) ==
    /\ detected' = [probed |-> r.probed, reg |-> reg, result |-> r.result]
    /\ config' = r.config

\* lines 135-141: a detectSdk message; _autoDetectSdkPaths returns r after
\* the registry query yielded reg, and the result is posted
DetectWith(r, reg) ==
    /\ message = "detectSdk"
    /\ pc = "idle"
    /\ DetectReturns(r, reg)
    /\ pc' = "detected"
    /\ UNCHANGED <<argument, returned, session, answers, suspended, alone, message, platform, fs, env, tools, enumeration, correlation, response, launch>>

Detect ==
    \E reg \in RegistryOutcomes(platform), updateOk \in BOOLEAN :
        DetectWith(AutoDetectSdkPaths(config, platform, env, fs, reg, updateOk), reg)

NextDetect == Detect

SpecDetect == InitDetect /\ [][NextDetect]_vars

-----------------------------------------------------------------------------
(* list-devices: one getAvds / refresh message, step by step: every await   *)
(* of _getAvailableAvds and _getRunningEmulators is a step.                  *)

\* at most this many names are printed by emulator -list-avd
MaxDefs == 2

\* at most this many entries are in the definitions directory
MaxDirEntries == 2

\* at most this many emulator instances are attached to adb
MaxEmus == 2

\* the definition names of the explored runs: "Ab", "a_b" (the same once
\* normalized), "Ab_c" (contains "Ab")
NameAb == <<"A", "b">>
NameA_b == <<"a", "_", "b">>
NameAb_c == <<"A", "b", "_", "c">>

RECURSIVE Pick(_, _, _)
\* the elements of s at the positions in I that are at or after i, in order
Pick(s, I, i) ==
    IF i > Len(s) THEN <<>>
    ELSE (IF i \in I THEN <<s[i]>> ELSE <<>>) \o Pick(s, I, i + 1)

\* the subsequences of s with at most n elements
SubSeqsUpTo(s, n) == { Pick(s, I, 1) : I \in SubsetsUpTo(1..Len(s), n) }

\* the line break of the tools' output on a platform
EOL(plat) == IF plat = "win32" THEN <<"\r", "\n">> ELSE <<"\n">>

\* the lines, each with the line break after it
PrintedLines(lines, eol) == Flatten([i \in 1..Len(lines) |-> lines[i] \o eol])

\* the names emulator -list-avd can print, in the order it prints them; one
\* of them can be printed twice
PrintedNames == <<NameAb, NameA_b, NameAb_c, NameAb>>

\* what emulator -list-avd can print: nothing, a blank line, or names
ListAvdOutputs(plat) ==
    { PrintedLines(ns, EOL(plat)) : ns \in SubSeqsUpTo(PrintedNames, MaxDefs) }
    \cup { <<" ">> \o EOL(plat) }

\* the entries the definitions directory can hold
DirEntries ==
    << <<".ini">>, <<"A", ".ini", "b", ".ini">>, NameAb \o <<".avd">>,
       NameAb \o <<".ini">>, <<"config", ".ini">> >>

\* what readdir can yield
DirListings == SubSeqsUpTo(DirEntries, MaxDirEntries)

\* the instance ids adb can list
EmulatorId(i) == <<"emulator-", Ports[i]>>

\* what adb devices can print: the header, then for each instance nothing, a
\* line in state device or a line in state offline, then the line of a phone
AdbDevicesOutputs(plat) ==
    { PrintedLines(<<<<"List of devices attached">>>>
                   \o Flatten([i \in 1..MaxEmus |->
                                 IF st[i] = "absent" THEN <<>>
                                 ELSE <<EmulatorId(i) \o <<"\t", st[i]>>>>])
                   \o phone, EOL(plat)) :
      st \in [1..MaxEmus -> {"absent", "device", "offline"}],
      phone \in {<<<<"R58M", "\t", "device">>>>} }

\* what adb emu avd name can print
EmuAvdNameOutputs(plat) ==
    { <<>>, NameAb \o EOL(plat) }

\* what adb shell getprop can print
GetPropOutputs(plat) == { EOL(plat), NameAb \o EOL(plat), NameAb_c \o EOL(plat) }

\* the lines of a process listing
ProcessLine(name, port) ==
    <<"emulator", " ", "-avd", " ">> \o name \o <<" ", "-port", " ", port>>
ProcessLines ==
    << <<"emulator.exe", " ", "Console">>,
       ProcessLine(NameAb, Ports[1]), ProcessLine(NameAb_c, Ports[2]),
       <<"emulator", " ", "-avd", " ">> \o NameAb >>

\* what tasklist and ps can print: any of these lines, in this order
ProcessListings(plat) ==
    { PrintedLines(ls, EOL(plat)) : ls \in SubSeqsUpTo(ProcessLines, Len(ProcessLines)) }

\* what the console can answer over telnet
TelnetOutputs ==
    { <<>>,
      <<"OK", "\r", "\n">>,
      <<"OK", "\r", "\n", "OK", "\r", "\n">>,
      <<"OK", "\r", "\n">> \o NameAb \o <<"\r", "\n", "OK", "\r", "\n">>,
      <<"avd name", " ", "'">> \o NameAb_c \o <<"'", "\r", "\n">> }

\* the settings of the explored runs: an SDK root or none, an emulator
\* override or none
ListConfigs ==
    { [sdkPath |-> sp, emulatorPath |-> ep, adbPath |-> <<>>] :
      sp \in {<<>>, SdkDir}, ep \in {<<>>, <<"/", "opt", "/", "emu">>} }

InitList ==
    /\ message = "getAvds"
    /\ platform \in Platforms
    /\ config \in ListConfigs
    /\ env = [n \in EnvNames |-> <<>>]
    /\ fs \in Filesystems({AvdHomeCandidate})
    /\ pc = "idle"
    /\ tools = NoTools
    /\ detected = NoDetect
    /\ enumeration = NoEnumeration
    /\ correlation = NoCorrelation
    /\ response = NoResponse
    /\ launch = NoLaunch
    /\ answers = NoAnswers
    /\ suspended = NoCall
    /\ alone = NoReference
    /\ argument = <<>>
    /\ returned = <<>>
    /\ session = NoSession

\* lines 442-446: the tools are located; an error of the locator is returned
\* at once
ToolsLocated(t) ==
    /\ tools' = t
    /\ pc' = IF t.error # <<>> THEN "done" ELSE "primary"
    /\ response' = IF t.error # <<>> THEN ErrorResponse(t.error) ELSE response

\* lines 109-110, 121-122, 440-446: a getAvds or refresh message starts
\* _getAvailableAvds, whose _findAndroidTools call returns t
ListDevicesWith(t) ==
    /\ message \in {"getAvds", "refresh"}
    /\ pc = "idle"
    /\ ToolsLocated(t)
    /\ UNCHANGED <<argument, returned, session, answers, suspended, alone, message, platform, config, fs, env, detected, enumeration, correlation, launch>>

ListDevices == ListDevicesWith(FindAndroidTools(config, fs, env, platform))

\* a handler in which a failure of emulator -list-avd is not caught at line
\* 470: the handler ends there and nothing is answered
Enumerated_ThrowEscapes(e, mayScan) ==
    /\ enumeration' = e
    /\ pc' = IF e.primary = "threw" /\ mayScan THEN "done"
             ELSE IF mayScan /\ Len(e.avdList) = 0 /\ tools.paths.avdHome # <<>> THEN "scan"
             ELSE IF NoDevicesFound(e.avdList) THEN "done"
             ELSE "adb"
    /\ response' = IF ~(e.primary = "threw" /\ mayScan)
                      /\ ~(mayScan /\ Len(e.avdList) = 0 /\ tools.paths.avdHome # <<>>)
                      /\ NoDevicesFound(e.avdList)
                   THEN ErrorResponse(<<NoDevicesMsg>>) ELSE response

\* a handler without the check of lines 492-495: an empty list of
\* definitions goes on to the running instances like any other
Enumerated_EmptyGoesOn(e, mayScan) ==
    /\ enumeration' = e
    /\ pc' = IF mayScan /\ Len(e.avdList) = 0 /\ tools.paths.avdHome # <<>> THEN "scan"
             ELSE "adb"
    /\ response' = response

\* lines 475, 491-504: after an enumeration method gave avdList: the directory
\* is read when it may be (mayScan), or the empty list is answered, or the
\* running instances are looked for
Enumerated(e, mayScan) ==
    /\ enumeration' = e
    /\ pc' = IF mayScan /\ Len(e.avdList) = 0 /\ tools.paths.avdHome # <<>> THEN "scan"
             ELSE IF NoDevicesFound(e.avdList) THEN "done"
             ELSE "adb"
    /\ response' = IF ~(mayScan /\ Len(e.avdList) = 0 /\ tools.paths.avdHome # <<>>)
                      /\ NoDevicesFound(e.avdList)
                   THEN ErrorResponse(<<NoDevicesMsg>>) ELSE response

\* lines 452-472: emulator -list-avd, ending as one of `outcomes`
ListAvdFrom(outcomes) ==
    /\ pc = "primary"
    /\ \E r \in outcomes :
          Enumerated([enumeration EXCEPT
                         !.primary = IF ~r.ok THEN "threw"
                                     ELSE IF Trim(r.stdout) = <<>> THEN "blank"
                                     ELSE "listed",
                         !.stdout = r.stdout,
                         !.avdList = IF r.ok THEN ParseListAvd(r.stdout) ELSE <<>>],
                     TRUE)
    /\ UNCHANGED <<argument, returned, session, answers, suspended, alone, message, platform, config, fs, env, tools, detected, correlation, launch>>

ListAvd == ListAvdFrom(ExecOutcomes(ListAvdOutputs(platform)))

\* the ways fs.readdirSync can end: it throws, or returns one of `listings`
ReadDirFailed == [ok |-> FALSE, files |-> <<>>]
ReadDirOutcomes(listings) ==
    {ReadDirFailed} \cup { [ok |-> TRUE, files |-> files] : files \in listings }

\* lines 475-489: readdir of the definitions directory, ending as one of
\* `outcomes`
ReadDirFrom(outcomes) ==
    /\ pc = "scan"
    /\ \E r \in outcomes :
          Enumerated(IF r.ok
                     THEN [enumeration EXCEPT !.scan = "read", !.files = r.files,
                                              !.avdList = ScanNames(r.files)]
                     ELSE [enumeration EXCEPT !.scan = "threw"],
                     FALSE)
    /\ UNCHANGED <<argument, returned, session, answers, suspended, alone, message, platform, config, fs, env, tools, detected, correlation, launch>>

ReadDir == ReadDirFrom(ReadDirOutcomes(DirListings))

\* lines 596-599, 504-551: the instances adb listed; without any, the
\* definitions are answered at once
DevicesListed(adb, devicesOutput, ids) ==
    /\ correlation' = [NoCorrelation EXCEPT !.adb = adb, !.devicesOutput = devicesOutput,
                                            !.runningEmulators = ids]
    /\ pc' = IF ids = <<>> THEN "done" ELSE "emuAvdName"
    /\ response' = IF ids = <<>> THEN ListResponse(enumeration.avdList, <<>>)
                   ELSE response

\* lines 578-594: adb devices, ending as one of `outcomes`
AdbDevicesFrom(outcomes) ==
    /\ pc = "adb"
    /\ \E r \in outcomes :
          DevicesListed(IF r.ok THEN "listed" ELSE "threw", r.stdout,
                        IF r.ok THEN RunningEmulatorIds(r.stdout) ELSE <<>>)
    /\ UNCHANGED <<argument, returned, session, answers, suspended, alone, message, platform, config, fs, env, tools, detected, enumeration, launch>>

AdbDevices == AdbDevicesFrom(ExecOutcomes(AdbDevicesOutputs(platform)))

\* the end of a strategy's turn: c is the correlation state it leaves, and the
\* definitions are answered when it was the last instance's last turn
StrategyDone(c, next) ==
    /\ correlation' = c
    /\ pc' = next
    /\ response' = IF next = "done" THEN ListResponse(enumeration.avdList, c.runningMap)
                   ELSE response
    /\ UNCHANGED <<argument, returned, session, answers, suspended, alone, message, platform, config, fs, env, tools, detected, enumeration, launch>>

\* mutant: a strategy whose command fails ends the whole correlation
StrategyTried_ThrowAborts(c, k, r, name) ==
    StrategyDone(Attempted(c, k, r, name),
                 IF r.ok THEN NextPosition(c, k, name) ELSE "done")

\* strategy k was invoked for the instance at c.idx, its command ended as r
\* and it recovered `name`
StrategyTried(c, k, r, name) ==
    StrategyDone(Attempted(c, k, r, name), NextPosition(c, k, name))

\* the instance the strategies are working on
CurrentPort == PortOf(correlation.runningEmulators[correlation.idx])

\* lines 602-618: the next instance's turn starts with adb emu avd name
EmuAvdNameFrom(outcomes) ==
    /\ pc = "emuAvdName"
    /\ \E r \in outcomes :
          StrategyTried([correlation EXCEPT !.idx = @ + 1, !.invoked = <<>>],
                        1, r, StdoutName(r))

EmuAvdName == EmuAvdNameFrom(ExecOutcomes(EmuAvdNameOutputs(platform)))

\* lines 620-632: adb shell getprop ro.kernel.qemu.avd_name
GetPropFrom(outcomes) ==
    /\ pc = "getprop"
    /\ \E r \in outcomes :
          StrategyTried(correlation, 2, r, StdoutName(r))

GetProp == GetPropFrom(ExecOutcomes(GetPropOutputs(platform)))

\* lines 634-660: tasklist, on Windows
TasklistFrom(outcomes) ==
    /\ pc = "processes"
    /\ platform = "win32"
    /\ \E r \in outcomes :
          StrategyTried(correlation, 3, r, TasklistName(r, CurrentPort))

Tasklist == TasklistFrom(ExecOutcomes(ProcessListings(platform)))

\* lines 662-690: ps, elsewhere; the instance's turn ends when the map holds
\* a name for it
PsTried(c, after) ==
    StrategyDone(after, NextPosition(c, 3, KeyFor(after.runningMap,
                                                  c.runningEmulators[c.idx])))

PsAuxFrom(outcomes) ==
    /\ pc = "processes"
    /\ platform # "win32"
    /\ \E r \in outcomes :
          PsTried(correlation, Attempted(correlation, 3, r, PsName(r, CurrentPort)))

PsAux == PsAuxFrom(ExecOutcomes(ProcessListings(platform)))

\* lines 692-725: the console over telnet, when there is a telnet command
\* (`commandExists`: the answers _commandExists('telnet') can give)
ConsoleFrom(commandExists, outcomes) ==
    /\ pc = "console"
    /\ \E telnet \in commandExists :
          IF platform # "win32" /\ ~telnet
          THEN StrategyDone(correlation, NextPosition(correlation, 4, <<>>))
          ELSE \E r \in outcomes : StrategyTried(correlation, 4, r, TelnetName(r))

Console == ConsoleFrom(BOOLEAN, ExecOutcomes(TelnetOutputs))

NextList ==
    \/ ListDevices
    \/ ListAvd
    \/ ReadDir
    \/ AdbDevices
    \/ EmuAvdName
    \/ GetProp
    \/ Tasklist
    \/ PsAux
    \/ Console

SpecList == InitList /\ [][NextList]_vars

-----------------------------------------------------------------------------
(* launch: one launchAvd message, handled by _launchAvd, then the callbacks  *)
(* of the calls it made.                                                     *)

\* the names a launch can be requested for
LaunchNames == {NameAb, NameA_b}

\* the settings of the explored runs
LaunchConfigs ==
    { [sdkPath |-> sp, emulatorPath |-> ep, adbPath |-> <<>>] :
      sp \in {<<>>, SdkDir}, ep \in {<<>>, <<"/", "opt", "/", "emu">>} }

\* the paths that matter to a launch on a platform
LaunchUniverse(plat) ==
    { AvdHomeCandidate, <<"/", "opt", "/", "emu">>,
      possibleEmulatorLocations(SdkDir, plat)[1],
      possibleEmulatorLocations(SdkDir, plat)[2] }

InitLaunch ==
    /\ message = "launchAvd"
    /\ platform \in Platforms
    /\ config \in LaunchConfigs
    /\ env = [n \in EnvNames |-> <<>>]
    /\ fs \in Filesystems(LaunchUniverse(platform))
    /\ pc = "idle"
    /\ tools = NoTools
    /\ detected = NoDetect
    /\ enumeration = NoEnumeration
    /\ correlation = NoCorrelation
    /\ response = NoResponse
    /\ launch = NoLaunch
    /\ answers = NoAnswers
    /\ suspended = NoCall
    /\ alone = NoReference
    /\ argument = <<>>
    /\ returned = <<>>
    /\ session = NoSession

\* the handler went on with these events and now waits for a callback, or
\* is done
Continued(l, events) ==
    /\ launch' = [l EXCEPT !.events = @ \o events]
    /\ pc' = Pending(l.events \o events)

\* lines 118-120, 759-848: the launchAvd message, up to the return of
\* _launchAvd
Launch ==
    /\ message = "launchAvd"
    /\ pc = "idle"
    /\ \E avdName \in LaunchNames, assignable, execThrew, fallbackThrew \in BOOLEAN :
          /\ tools' = FindAndroidTools(config, fs, env, platform)
          /\ Continued([avdName |-> avdName, sdkPath |-> expandEnvVars(config.sdkPath, env),
                        events |-> <<>>],
                       LaunchAvd(FindAndroidTools(config, fs, env, platform), config, env,
                                 platform, avdName, assignable, execThrew, fallbackThrew))
    /\ UNCHANGED <<argument, returned, session, answers, suspended, alone, message, platform, config, fs, env, detected, enumeration, correlation, response>>

\* lines 790-803: the Windows primary call ended
PrimaryExited ==
    /\ pc = "primary"
    /\ \E ok, fallbackThrew \in BOOLEAN :
          Continued(launch, WindowsCallback(launch.sdkPath, launch.avdName, ok, fallbackThrew))
    /\ UNCHANGED <<argument, returned, session, answers, suspended, alone, message, platform, config, fs, env, tools, detected, enumeration, correlation,
                   response>>

\* lines 861-884: fallback method 1 ended
FallbackExited ==
    /\ pc = "start"
    /\ \E ok, spawnThrew \in BOOLEAN :
          Continued(launch, FallbackCallback(launch.sdkPath, launch.avdName, ok, spawnThrew))
    /\ UNCHANGED <<argument, returned, session, answers, suspended, alone, message, platform, config, fs, env, tools, detected, enumeration, correlation,
                   response>>

\* lines 815-824, 830-839: the macOS / Linux call ended
TerminalExited ==
    /\ pc \in {"osascript", "x-terminal-emulator"}
    /\ \E ok \in BOOLEAN : Continued(launch, UnixCallback(platform, launch.avdName, ok))
    /\ UNCHANGED <<argument, returned, session, answers, suspended, alone, message, platform, config, fs, env, tools, detected, enumeration, correlation,
                   response>>

NextLaunch ==
    \/ Launch
    \/ PrimaryExited
    \/ FallbackExited
    \/ TerminalExited

SpecLaunch == InitLaunch /\ [][NextLaunch]_vars

-----------------------------------------------------------------------------
(* The message handler serving getAvds, refresh and detectSdk, with every    *)
(* awaited call eventually returning or failing.  The answers of             *)
(* _findAndroidTools and _autoDetectSdkPaths in the explored environments    *)
(* are tabulated once, so that whether a step is possible is cheap to tell.  *)

\* the environments of the explored runs: the message, the platform, whether
\* ANDROID_HOME names the SDK directory and whether sdkPath is configured
Worlds ==
    [ message : {"getAvds", "refresh"}, platform : Platforms, home : {<<>>},
      sdkPath : {<<>>, SdkDir} ]
    \cup [ message : {"detectSdk"}, platform : Platforms, home : {<<>>, SdkDir},
           sdkPath : {SdkDir} ]

\* process.env in an environment
WorldEnv(w) == [n \in EnvNames |-> IF n = "ANDROID_HOME" THEN w.home ELSE <<>>]

\* the settings and the filesystem of the explored runs
ServedConfig(w) == [sdkPath |-> w.sdkPath, emulatorPath |-> <<>>, adbPath |-> <<>>]
ServedFs == {AvdHomeCandidate, SdkDir}

\* _findAndroidTools' answer in each environment
LocatedByWorld ==
    { <<w, FindAndroidTools(ServedConfig(w), ServedFs, WorldEnv(w), w.platform)>> : w \in Worlds }

\* _autoDetectSdkPaths' answer in each environment, for each outcome of the
\* registry query and of config.update
DetectedByWorld ==
    { <<w, reg, updateOk,
        AutoDetectSdkPaths(ServedConfig(w), w.platform, WorldEnv(w), ServedFs, reg, updateOk)>> :
      w \in Worlds, reg \in {<<>>, RegistryStudio}, updateOk \in BOOLEAN }

\* the environment of the current run
World ==
    [message |-> message, platform |-> platform, home |-> env["ANDROID_HOME"],
     sdkPath |-> config.sdkPath]

InitServe ==
    /\ \E w \in Worlds :
          /\ message = w.message
          /\ platform = w.platform
          /\ env = WorldEnv(w)
          /\ config = ServedConfig(w)
    /\ fs = ServedFs
    /\ pc = "idle"
    /\ tools = NoTools
    /\ detected = NoDetect
    /\ enumeration = NoEnumeration
    /\ correlation = NoCorrelation
    /\ response = NoResponse
    /\ launch = NoLaunch
    /\ answers = NoAnswers
    /\ suspended = NoCall
    /\ alone = NoReference
    /\ argument = <<>>
    /\ returned = <<>>
    /\ session = NoSession

\* adb devices lists at most this many running instances
ServedEmus == 2

\* what the tools print in the explored runs: nothing or one name, and for
\* adb devices the header and the lines of the first k instances
ServedNames(plat) == { <<>>, NameAb \o EOL(plat) }
ServedListings == { <<>>, <<NameAb \o <<".ini">>>> }
ServedDevices(plat) ==
    { PrintedLines(<<<<"List of devices attached">>>>
                   \o [i \in 1..k |-> EmulatorId(i) \o <<"\t", "device">>], EOL(plat)) :
      k \in 0..ServedEmus }
ServedProcesses(plat) == { <<>>, PrintedLines(<<ProcessLine(NameAb, Ports[1])>>, EOL(plat)) }
ServedConsole == { <<>>, <<"OK", "\r", "\n">> \o NameAb \o <<"\r", "\n">> }

\* ListDevices, with _findAndroidTools' answer read from the table
ListDevicesServed ==
    ListDevicesWith((CHOOSE a \in LocatedByWorld : a[1] = World)[2])

\* Detect, with _autoDetectSdkPaths' answer read from the table
DetectServed ==
    \E reg \in RegistryOutcomes(platform), updateOk \in BOOLEAN :
        DetectWith((CHOOSE a \in DetectedByWorld :
                       a[1] = World /\ a[2] = reg /\ a[3] = updateOk)[4], reg)

NextServe ==
    \/ ListDevicesServed
    \/ ListAvdFrom(ExecOutcomes(ServedNames(platform)))
    \/ ReadDirFrom(ReadDirOutcomes(ServedListings))
    \/ AdbDevicesFrom(ExecOutcomes(ServedDevices(platform)))
    \/ EmuAvdNameFrom(ExecOutcomes(ServedNames(platform)))
    \/ GetPropFrom(ExecOutcomes(ServedNames(platform)))
    \/ TasklistFrom(ExecOutcomes(ServedProcesses(platform)))
    \/ PsAuxFrom(ExecOutcomes(ServedProcesses(platform)))
    \/ ConsoleFrom(BOOLEAN, ExecOutcomes(ServedConsole))
    \/ DetectServed

\* each awaited call or probe eventually returns or fails: a handler that
\* can take its next step eventually takes it
SpecServe == InitServe /\ [][NextServe]_vars /\ WF_vars(NextServe)

-----------------------------------------------------------------------------
(* Two list-devices calls that overlap.  The handler is an async function:   *)
(* it runs from one await to the next without interruption, and while it     *)
(* waits the handler of another message runs.  The call that is running has  *)
(* its locals in pc, tools, enumeration, correlation and response; the call  *)
(* that waits has them in `suspended`.  The environment does not change:     *)
(* `answers` fixes how every command ends.  Before the two calls, one call   *)
(* runs alone in the same environment and its response is kept in `alone`.   *)

\* a command that prints `text` and a line break
Printed(text, plat) == [ok |-> TRUE, stdout |-> text \o EOL(plat)]

\* how emulator -list-avd and readdir end: a name is listed, or nothing is
\* listed or the command fails and the directory holds a definition, or both fail
EnumerationAnswers(plat) ==
    { [listAvd |-> Printed(NameAb, plat), readDir |-> ReadDirFailed],
      [listAvd |-> [ok |-> TRUE, stdout |-> <<>>],
       readDir |-> [ok |-> TRUE, files |-> <<NameAb \o <<".ini">>>>]],
      [listAvd |-> ExecFailed,
       readDir |-> [ok |-> TRUE, files |-> <<NameAb \o <<".ini">>>>]],
      [listAvd |-> ExecFailed, readDir |-> ReadDirFailed] }

\* adb devices printing the header and the lines of the first k instances
DevicesOutput(k, plat) ==
    PrintedLines(<<<<"List of devices attached">>>>
                 \o [i \in 1..k |-> EmulatorId(i) \o <<"\t", "device">>], EOL(plat))

\* the definitions the instances run: only the first is one that is listed
RunningNames == <<NameAb, <<"X">>, <<"Y">>, <<"Z">>>>

\* how the commands of _getRunningEmulators end when k instances run (adb
\* devices fails for k = -1), instance i runs definition RunningNames[i], and
\* strategy s is the one that recovers names (none does for s = 0): the
\* other strategies' commands fail
CorrelationAnswers(k, s, telnet, plat) ==
    [ adbDevices |-> IF k < 0 THEN ExecFailed
                     ELSE [ok |-> TRUE, stdout |-> DevicesOutput(k, plat)],
      emuAvdName |-> [i \in 1..ServedEmus |->
                         IF s = 1 THEN Printed(RunningNames[i], plat) ELSE ExecFailed],
      getProp    |-> [i \in 1..ServedEmus |->
                         IF s = 2 THEN Printed(RunningNames[i], plat) ELSE ExecFailed],
      processes  |-> IF s = 3
                     THEN [ok |-> TRUE,
                           stdout |-> PrintedLines([i \in 1..ServedEmus |->
                                                       ProcessLine(RunningNames[i], Ports[i])],
                                                   EOL(plat))]
                     ELSE ExecFailed,
      telnet     |-> telnet,
      console    |-> [i \in 1..ServedEmus |->
                         IF s = 4
                         THEN [ok |-> TRUE,
                               stdout |-> <<"OK", "\r", "\n">> \o RunningNames[i]
                                          \o <<"\r", "\n">>]
                         ELSE ExecFailed] ]

\* the environments of the explored runs
Answers(plat) ==
    { [enumeration |-> e, correlation |-> CorrelationAnswers(k, s, telnet, plat)] :
      e \in EnumerationAnswers(plat), k \in (-1)..ServedEmus, s \in 0..4,
      telnet \in BOOLEAN }

\* how the command for instance i ends
AnswerFor(byInstance, i) == IF i \in DOMAIN byInstance THEN byInstance[i] ELSE ExecFailed

\* the locals of the call that is running
Locals == [pc |-> pc, tools |-> tools, enumeration |-> enumeration,
           correlation |-> correlation, response |-> response]

\* the locals of a call whose message has arrived and whose handler has not
\* run yet
NotStarted == [pc |-> "idle", tools |-> NoTools, enumeration |-> NoEnumeration,
               correlation |-> NoCorrelation, response |-> NoResponse]

InitOverlap ==
    /\ message = "refresh"
    /\ platform \in Platforms
    /\ config = [sdkPath |-> SdkDir, emulatorPath |-> <<>>, adbPath |-> <<>>]
    /\ env = [n \in EnvNames |-> <<>>]
    /\ fs = ServedFs
    /\ pc = "idle"
    /\ tools = NoTools
    /\ detected = NoDetect
    /\ enumeration = NoEnumeration
    /\ correlation = NoCorrelation
    /\ response = NoResponse
    /\ launch = NoLaunch
    /\ answers \in Answers(platform)
    /\ suspended = NoCall
    /\ alone = NoReference
    /\ argument = <<>>
    /\ returned = <<>>
    /\ session = NoSession

\* the locals of the running call become those of `call`
Resumed_SharedMap(call) ==
    /\ pc' = call.pc
    /\ tools' = call.tools
    /\ enumeration' = call.enumeration
    /\ correlation' = [call.correlation EXCEPT !.runningMap = correlation.runningMap]
    /\ response' = call.response

Resumed(call) ==
    /\ pc' = call.pc
    /\ tools' = call.tools
    /\ enumeration' = call.enumeration
    /\ correlation' = call.correlation
    /\ response' = call.response

\* lines 107-128: the call that ran alone has answered; two more messages
\* arrive, and the handler of the first is about to run
TwoMessages ==
    /\ ~alone.known
    /\ response.sent
    /\ alone' = [known |-> TRUE, response |-> response]
    /\ suspended' = NotStarted
    /\ Resumed(NotStarted)
    /\ UNCHANGED <<argument, returned, session, message, platform, config, fs, env, detected, launch, answers>>

\* the running call waits at its await (or has returned) and the other call,
\* whose awaited command has ended, goes on
Switch ==
    /\ alone.known
    /\ suspended.pc # "done"
    /\ suspended' = Locals
    /\ Resumed(suspended)
    /\ UNCHANGED <<argument, returned, session, message, platform, config, fs, env, detected, launch, answers, alone>>

NextOverlap ==
    \/ ListDevices
    \/ ListAvdFrom({answers.enumeration.listAvd})
    \/ ReadDirFrom({answers.enumeration.readDir})
    \/ AdbDevicesFrom({answers.correlation.adbDevices})
    \/ EmuAvdNameFrom({AnswerFor(answers.correlation.emuAvdName, correlation.idx + 1)})
    \/ GetPropFrom({AnswerFor(answers.correlation.getProp, correlation.idx)})
    \/ TasklistFrom({answers.correlation.processes})
    \/ PsAuxFrom({answers.correlation.processes})
    \/ ConsoleFrom({answers.correlation.telnet},
                   {AnswerFor(answers.correlation.console, correlation.idx)})
    \/ TwoMessages
    \/ Switch

SpecOverlap == InitOverlap /\ [][NextOverlap]_vars

-----------------------------------------------------------------------------
(* expand: one call of expandEnvVars. *)

\* the longest string the function is called with, in tokens
MaxTokens == 4

\* the most token and literal segments a composed string is made of
MaxSegments == 2

\* the tokens the strings are made of: the characters the function reacts
\* to, the path separator, a variable name and a directory name
ExpandTokens == {"%", "$", "{", "}", "~", "/", "ANDROID_HOME", ".."}

RECURSIVE StringsUpTo(_, _)
\* the strings of at most n tokens of T
StringsUpTo(T, n) ==
    IF n = 0 THEN {<<>>}
    ELSE LET shorter == StringsUpTo(T, n - 1)
         IN  shorter \cup { <<t>> \o s : t \in T, s \in { x \in shorter : Len(x) = n - 1 } }

\* a piece of a composed string: literal text, or a reference to a variable
\* in one of the three notations
Literal(s) == [kind |-> "literal", text |-> s]
Reference(kind, name) == [kind |-> kind, text |-> <<name>>]

Segments ==
    { Literal(<<"/">>), Literal(<<"/", "..">>) }
    \cup { Reference(kind, name) : kind \in {"percent", "brace", "dollar"},
                                   name \in {"ANDROID_HOME", "UNSET"} }

\* the text of a segment
Written(seg) ==
    CASE seg.kind = "percent" -> <<"%">> \o seg.text \o <<"%">>
      [] seg.kind = "brace"   -> <<"$", "{">> \o seg.text \o <<"}">>
      [] seg.kind = "dollar"  -> <<"$">> \o seg.text
      [] OTHER                -> seg.text

RECURSIVE SegmentSeqsUpTo(_)
SegmentSeqsUpTo(n) ==
    IF n = 0 THEN {<<>>}
    ELSE LET shorter == SegmentSeqsUpTo(n - 1)
         IN  shorter \cup { <<seg>> \o s : seg \in Segments,
                                           s \in { x \in shorter : Len(x) = n - 1 } }

SegmentSeqs == SegmentSeqsUpTo(MaxSegments)

\* the strings the function is called with
ExpandInputs ==
    StringsUpTo(ExpandTokens, MaxTokens)
    \cup { Flatten([i \in 1..Len(segs) |-> Written(segs[i])]) : segs \in SegmentSeqs }

\* process.env: ANDROID_HOME unset, a path, or text that is itself a
\* reference to LOCALAPPDATA in the dollar or the percent notation
ExpandEnvs ==
    { [n \in EnvNames |-> IF n = "ANDROID_HOME" THEN h
                          ELSE IF n = "LOCALAPPDATA" /\ h # <<>> THEN <<"/", "data">>
                          ELSE <<>>] :
      h \in { <<>>, SdkDir, <<"$", "LOCALAPPDATA">>, <<"%", "LOCALAPPDATA", "%">> } }

InitExpand ==
    /\ message = ""
    /\ platform \in {"linux"}
    /\ config = [sdkPath |-> <<>>, emulatorPath |-> <<>>, adbPath |-> <<>>]
    /\ env \in ExpandEnvs
    /\ fs = {}
    /\ pc = "idle"
    /\ tools = NoTools
    /\ detected = NoDetect
    /\ enumeration = NoEnumeration
    /\ correlation = NoCorrelation
    /\ response = NoResponse
    /\ launch = NoLaunch
    /\ answers = NoAnswers
    /\ suspended = NoCall
    /\ alone = NoReference
    /\ argument \in ExpandInputs
    /\ returned = <<>>
    /\ session = NoSession

\* lines 51-75: expandEnvVars(argument) returns
Expand ==
    /\ pc = "idle"
    /\ returned' = expandEnvVars(argument, env)
    /\ pc' = "returned"
    /\ UNCHANGED <<argument, session, answers, suspended, alone, message, platform, config,
                   fs, env, tools, detected, enumeration, correlation, response, launch>>

NextExpand == Expand

SpecExpand == InitExpand /\ [][NextExpand]_vars

-----------------------------------------------------------------------------
(* normalize: one call of _normalizeAvdName. *)

\* the longest name the function is called with, in characters
MaxNameLen == 3

\* the characters the names are made of: a letter in both cases, a digit,
\* a blank, an underscore, a hyphen and a dot
NameTokens == {"A", "a", "6", " ", "_", "-", "."}

InitNormalize ==
    /\ message = ""
    /\ platform \in {"linux"}
    /\ config = [sdkPath |-> <<>>, emulatorPath |-> <<>>, adbPath |-> <<>>]
    /\ env = [n \in EnvNames |-> <<>>]
    /\ fs = {}
    /\ pc = "idle"
    /\ tools = NoTools
    /\ detected = NoDetect
    /\ enumeration = NoEnumeration
    /\ correlation = NoCorrelation
    /\ response = NoResponse
    /\ launch = NoLaunch
    /\ answers = NoAnswers
    /\ suspended = NoCall
    /\ alone = NoReference
    /\ argument \in StringsUpTo(NameTokens, MaxNameLen)
    /\ returned = <<>>
    /\ session = NoSession

\* lines 568-573: _normalizeAvdName(argument) returns
Normalize ==
    /\ pc = "idle"
    /\ returned' = normalizeAvdName(argument)
    /\ pc' = "returned"
    /\ UNCHANGED <<argument, session, answers, suspended, alone, message, platform, config,
                   fs, env, tools, detected, enumeration, correlation, response, launch>>

NextNormalize == Normalize

SpecNormalize == InitNormalize /\ [][NextNormalize]_vars

-----------------------------------------------------------------------------
(* A session: messages handled one after the other.  What a handler leaves  *)
(* behind stays: the configuration _autoDetectSdkPaths wrote, the value of   *)
(* every variable a later handler does not assign.                           *)

\* the most messages a session has
MaxHandled == 3

SessionMessages == {"getAvds", "detectSdk", "launchAvd"}

InitSession ==
    /\ message \in SessionMessages
    /\ platform \in Platforms
    /\ config \in { [sdkPath |-> p, emulatorPath |-> <<>>, adbPath |-> <<>>] :
                    p \in {<<>>, SdkDir} }
    /\ env \in { [n \in EnvNames |-> IF n = "ANDROID_HOME" THEN h ELSE <<>>] :
                 h \in {<<>>, SdkDir} }
    /\ fs = ServedFs
    /\ pc = "idle"
    /\ tools = NoTools
    /\ detected = NoDetect
    /\ enumeration = NoEnumeration
    /\ correlation = NoCorrelation
    /\ response = NoResponse
    /\ launch = NoLaunch
    /\ answers = NoAnswers
    /\ suspended = NoCall
    /\ alone = NoReference
    /\ argument = <<>>
    /\ returned = <<>>
    /\ session = NoSession

\* lines 107-143: the handler of the message has returned and the next
\* message arrives; the first result of _findAndroidTools is kept with the
\* configuration it was computed from
NextMessage ==
    /\ session.handled + 1 < MaxHandled
    /\ pc \in {"done", "detected"}
    /\ message' \in SessionMessages
    /\ pc' = "idle"
    /\ enumeration' = NoEnumeration
    /\ correlation' = NoCorrelation
    /\ response' = NoResponse
    /\ launch' = NoLaunch
    /\ session' = IF ~session.located /\ tools # NoTools
                  THEN [handled |-> session.handled + 1, located |-> TRUE,
                        config |-> config, tools |-> tools]
                  ELSE [session EXCEPT !.handled = @ + 1]
    /\ UNCHANGED <<argument, returned, answers, suspended, alone, platform, config, fs, env,
                   tools, detected>>

\* the steps of the getAvds handler, each command failing or printing a name
ListSteps ==
    /\ message = "getAvds"
    /\ \/ ListDevices
       \/ ListAvdFrom(ExecOutcomes({NameAb \o EOL(platform)}))
       \/ ReadDirFrom({ReadDirFailed})
       \/ AdbDevicesFrom(ExecOutcomes({DevicesOutput(1, platform)}))
       \/ EmuAvdNameFrom({ExecFailed})
       \/ GetPropFrom({ExecFailed})
       \/ TasklistFrom({ExecFailed})
       \/ PsAuxFrom({ExecFailed})
       \/ ConsoleFrom(BOOLEAN, ExecOutcomes({<<"OK", "\r", "\n">> \o NameAb \o <<"\r", "\n">>}))

\* the steps of the launchAvd handler and of the callbacks of its calls
LaunchSteps ==
    /\ message = "launchAvd"
    /\ \/ Launch
       \/ PrimaryExited
       \/ FallbackExited
       \/ TerminalExited

NextSession ==
    \/ ListSteps
    \/ Detect
    \/ LaunchSteps
    \/ NextMessage

SpecSession == InitSession /\ [][NextSession]_vars

-----------------------------------------------------------------------------
(* validity: one call of _isValidSdkLocation. *)

\* the paths under a candidate root the predicate can tell apart: the root,
\* the three directories and adb under both of its names
ValidityLayout(root) ==
    { root,
      PathJoin(<<root, <<"platform-tools">>>>),
      PathJoin(<<root, <<"platform-tools">>, <<"adb">>>>),
      PathJoin(<<root, <<"platform-tools">>, <<"adb", ".exe">>>>),
      PathJoin(<<root, <<"tools">>>>),
      PathJoin(<<root, <<"emulator">>>>) }

\* the filesystem also holds a complete SDK under another root
ValidityUniverse ==
    ValidityLayout(SdkDir)
    \cup { PathJoin(<<SdkDir2, <<"platform-tools">>, <<"adb">>>>),
           PathJoin(<<SdkDir2, <<"tools">>>>) }

InitValidity ==
    /\ message = ""
    /\ platform \in Platforms
    /\ config = [sdkPath |-> <<>>, emulatorPath |-> <<>>, adbPath |-> <<>>]
    /\ env = [n \in EnvNames |-> <<>>]
    /\ fs \in SUBSET ValidityUniverse
    /\ pc = "idle"
    /\ tools = NoTools
    /\ detected = NoDetect
    /\ enumeration = NoEnumeration
    /\ correlation = NoCorrelation
    /\ response = NoResponse
    /\ launch = NoLaunch
    /\ answers = NoAnswers
    /\ suspended = NoCall
    /\ alone = NoReference
    /\ argument = SdkDir
    /\ returned = <<>>
    /\ session = NoSession

\* lines 288-309: _isValidSdkLocation(argument) returns
Validate ==
    /\ pc = "idle"
    /\ returned' = IF IsValidSdkLocation(fs, argument, platform)
                   THEN <<"true">> ELSE <<"false">>
    /\ pc' = "returned"
    /\ UNCHANGED <<argument, session, answers, suspended, alone, message, platform, config,
                   fs, env, tools, detected, enumeration, correlation, response, launch>>

NextValidity == Validate

SpecValidity == InitValidity /\ [][NextValidity]_vars

-----------------------------------------------------------------------------
(* recovered names: one getAvds message whose commands print names with     *)
(* blanks around them, blank output, flags without a value and quotes        *)
(* without a name.                                                           *)

\* what adb emu avd name prints here: nothing, a blank line, a name between
\* blanks, a name with a blank inside
BlankEmuAvdNameOutputs(plat) ==
    { <<>>, <<" ">> \o EOL(plat), <<" ", "\t">> \o NameAb \o <<" ">> \o EOL(plat),
      <<"X", " ", "Y">> \o EOL(plat) }

\* what adb shell getprop prints here: an empty line, a name after a tab
BlankGetPropOutputs(plat) == { EOL(plat), <<"\t", "Z">> \o EOL(plat) }

\* the lines of the process listing here: a flag without a value, a flag
\* followed by blanks only, a value after two blanks
BlankProcessLines ==
    << <<"emulator", " ", "-port", " ", Ports[1], " ", "-avd">>,
       <<"emulator", " ", "-port", " ", Ports[2], " ", "-avd", "\t">>,
       <<"emulator", " ", "-avd", " ", " ">> \o NameAb_c \o <<" ", "-port", " ", Ports[1]>> >>

BlankProcessListings(plat) ==
    { PrintedLines(ls, EOL(plat)) : ls \in SubSeqsUpTo(BlankProcessLines, Len(BlankProcessLines)) }

\* what the console answers here: OK alone, the command echoed with nothing
\* after it, quotes without a name, a quoted name after a blank
BlankTelnetOutputs ==
    { <<"OK", "\r", "\n">>,
      <<"avd name", " ", "\r", "\n">>,
      <<"avd name", " ", "\"", "\"", "\r", "\n">>,
      <<"OK", " ", "'", " ">> \o NameAb \o <<"'", "\r", "\n">> }

NextKeys ==
    \/ ListDevices
    \/ ListAvdFrom({Printed(NameAb, platform)})
    \/ AdbDevicesFrom({ [ok |-> TRUE, stdout |-> DevicesOutput(k, platform)] : k \in 1..MaxEmus })
    \/ EmuAvdNameFrom(ExecOutcomes(BlankEmuAvdNameOutputs(platform)))
    \/ GetPropFrom(ExecOutcomes(BlankGetPropOutputs(platform)))
    \/ TasklistFrom(ExecOutcomes(BlankProcessListings(platform)))
    \/ PsAuxFrom(ExecOutcomes(BlankProcessListings(platform)))
    \/ ConsoleFrom(BOOLEAN, ExecOutcomes(BlankTelnetOutputs))

SpecKeys == InitList /\ [][NextKeys]_vars

-----------------------------------------------------------------------------
(* A launch during which a detectSdk message is handled.  _launchAvd awaits *)
(* _findAndroidTools, which reads the settings and then awaits its probes;   *)
(* while it waits the handler of a detectSdk message can run and persist an  *)
(* SDK root.  `session` keeps the settings _findAndroidTools read.           *)

\* process.env: ANDROID_SDK_ROOT unset or naming the second SDK
RaceEnvs ==
    { [n \in EnvNames |-> IF n = "ANDROID_SDK_ROOT" THEN r ELSE <<>>] : r \in {<<>>, SdkDir2} }

\* the paths that matter here: the definitions directory, the emulator of
\* the configured SDK, the emulator override, the emulator of the second SDK
RaceUniverse(plat) ==
    { AvdHomeCandidate, <<"/", "opt", "/", "emu">>,
      possibleEmulatorLocations(SdkDir, plat)[1],
      possibleEmulatorLocations(SdkDir2, plat)[1] }

InitRace ==
    /\ message = "launchAvd"
    /\ platform \in Platforms
    /\ config \in LaunchConfigs
    /\ env \in RaceEnvs
    /\ fs \in Filesystems(RaceUniverse(platform))
    /\ pc = "idle"
    /\ tools = NoTools
    /\ detected = NoDetect
    /\ enumeration = NoEnumeration
    /\ correlation = NoCorrelation
    /\ response = NoResponse
    /\ launch = NoLaunch
    /\ answers = NoAnswers
    /\ suspended = NoCall
    /\ alone = NoReference
    /\ argument = <<>>
    /\ returned = <<>>
    /\ session = NoSession

\* lines 118-120, 761, 324-348: the launchAvd message starts _launchAvd,
\* whose _findAndroidTools call reads the settings and waits for its probes;
\* what it will return is fixed by the settings it read
LaunchLocates ==
    /\ message = "launchAvd"
    /\ pc = "idle"
    /\ tools' = FindAndroidTools(config, fs, env, platform)
    /\ session' = [NoSession EXCEPT !.located = TRUE, !.config = config,
                                    !.tools = FindAndroidTools(config, fs, env, platform)]
    /\ pc' = "locating"
    /\ UNCHANGED <<argument, returned, answers, suspended, alone, message, platform, config,
                   fs, env, detected, enumeration, correlation, response, launch>>

\* lines 135-141, 311-317: a detectSdk message is handled, before the
\* launch, while _launchAvd waits, or after it
DetectMeanwhile ==
    /\ message = "launchAvd"
    /\ detected = NoDetect
    /\ \E reg \in RegistryOutcomes(platform), updateOk \in BOOLEAN :
          DetectReturns(AutoDetectSdkPaths(config, platform, env, fs, reg, updateOk), reg)
    /\ UNCHANGED <<argument, returned, session, answers, suspended, alone, message, platform,
                   fs, env, pc, tools, enumeration, correlation, response, launch>>

\* lines 761-848: _findAndroidTools has returned and _launchAvd runs up to
\* its return, reading the settings as they are now (772-773)
LaunchResumes ==
    /\ pc = "locating"
    /\ \E avdName \in LaunchNames, assignable, execThrew, fallbackThrew \in BOOLEAN :
          Continued([avdName |-> avdName, sdkPath |-> expandEnvVars(config.sdkPath, env),
                     events |-> <<>>],
                    LaunchAvd(tools, config, env, platform, avdName, assignable, execThrew,
                              fallbackThrew))
    /\ UNCHANGED <<argument, returned, session, answers, suspended, alone, message, platform,
                   config, fs, env, tools, detected, enumeration, correlation, response>>

NextRace ==
    \/ LaunchLocates
    \/ DetectMeanwhile
    \/ LaunchResumes
    \/ PrimaryExited
    \/ FallbackExited
    \/ TerminalExited

SpecRace == InitRace /\ [][NextRace]_vars

-----------------------------------------------------------------------------
(* A launch whose primary process is seen to start.  cp.exec calls back     *)
(* once, when the child has ended or could not be created; an emulator that  *)
(* was created runs until it is closed or crashes, and only then does the    *)
(* callback of lines 792-803 run, with an error if the exit code was not 0.  *)

\* the process of a call was created and runs
ProcessStarted(strategy) == Event("started", strategy, <<>>, <<>>, <<>>)

\* lines 790-792: the child of the Windows primary call was created; the
\* handler is told nothing until the child ends
PrimaryStarted ==
    /\ pc = "primary"
    /\ ProcessStarted("primary") \notin Range(launch.events)
    /\ launch' = [launch EXCEPT !.events = Append(@, ProcessStarted("primary"))]
    /\ UNCHANGED <<argument, returned, session, answers, suspended, alone, message, platform,
                   config, fs, env, pc, tools, detected, enumeration, correlation, response>>

NextProcess ==
    \/ Launch
    \/ PrimaryStarted
    \/ PrimaryExited
    \/ FallbackExited
    \/ TerminalExited

SpecProcess == InitLaunch /\ [][NextProcess]_vars

-----------------------------------------------------------------------------
(* Claims about locate (checked under SpecLocate). *)

\* the inputs of the call as _findAndroidTools sees them
ExpandedSdkPath == expandEnvVars(config.sdkPath, env)
ExpandedEmulatorOverride == expandEnvVars(config.emulatorPath, env)
ExpandedAdbOverride == expandEnvVars(config.adbPath, env)

NoEmulatorUnderSdk ==
    \/ ExpandedSdkPath = <<>>
    \/ /\ \A p \in Range(possibleEmulatorLocations(ExpandedSdkPath, platform)) :
              ~exists(fs, p)
       /\ platform = "win32" => ~exists(fs, winEmulatorScript(ExpandedSdkPath))

NoAdbUnderSdk ==
    \/ ExpandedSdkPath = <<>>
    \/ \A p \in Range(possibleAdbLocations(ExpandedSdkPath, platform)) : ~exists(fs, p)

\* C6: locate always returns a non-empty emulator path and a non-empty adb
\* path, and a tool with no configured override and no existing candidate
\* under the SDK root (or no SDK root) gets exactly the bare command name.
C6_PathsNeverEmpty ==
    pc = "located" =>
        /\ tools.paths.emulator # <<>>
        /\ tools.paths.adb # <<>>
        /\ (config.emulatorPath = <<>> /\ NoEmulatorUnderSdk)
               => tools.paths.emulator = <<"emulator">>
        /\ (config.adbPath = <<>> /\ NoAdbUnderSdk)
               => tools.paths.adb = <<"adb">>

\* C6 witness: an SDK root is configured, holds neither tool, no override is
\* configured, and locate answered with the two bare command names.
C6_Witness ==
    /\ pc = "located"
    /\ config.emulatorPath = <<>> /\ config.adbPath = <<>>
    /\ ExpandedSdkPath # <<>>
    /\ NoEmulatorUnderSdk /\ NoAdbUnderSdk
    /\ tools.paths.emulator = <<"emulator">>
    /\ tools.paths.adb = <<"adb">>

\* C7 (as claimed): a configured override that does not exist is returned,
\* expanded, as that tool's path, and the returned error names that path.
C7_MissingOverrideNamedInError ==
    pc = "located" =>
        /\ (ExpandedEmulatorOverride # <<>> /\ ~exists(fs, ExpandedEmulatorOverride))
               => /\ tools.paths.emulator = ExpandedEmulatorOverride
                  /\ EmulatorMissingMsg(ExpandedEmulatorOverride) \in Range(tools.error)
        /\ (ExpandedAdbOverride # <<>> /\ ~exists(fs, ExpandedAdbOverride))
               => /\ tools.paths.adb = ExpandedAdbOverride
                  /\ AdbMissingMsg(ExpandedAdbOverride) \in Range(tools.error)

-----------------------------------------------------------------------------
(* Claims about detect (checked under SpecDetect). *)

\* the place of a candidate in the order the claim states
ViaRank(via) ==
    CASE via = "ANDROID_HOME" -> 1
      [] via = "ANDROID_SDK_ROOT" -> 2
      [] via = "location" -> 3
      [] via = "default" -> 4

\* the conventional locations of this run, expanded, in list order
ListedRoots ==
    LET locs == possibleLocations(platform, env, fs, detected.reg)
    IN  [ i \in 1..Len(locs) |-> expandEnvVars(locs[i], env) ]

\* the roots detect probed from the list of conventional locations
ProbedListed ==
    LET sel == SelectSeq(detected.probed, LAMBDA c : c.via = "location")
    IN  [ i \in 1..Len(sel) |-> sel[i].path ]

\* C9: detect considers the candidates in the order ANDROID_HOME,
\* ANDROID_SDK_ROOT, the conventional locations in list order, the default
\* location, and stops at the first acceptable one: nothing is probed after
\* an accepted candidate, and only the accepted candidate is persisted or
\* returned.
C9_OrderedFirstAccepted ==
    pc = "detected" =>
        LET probed == detected.probed
            n == Len(probed)
        IN  /\ \A i, j \in 1..n : i < j => ViaRank(probed[i].via) <= ViaRank(probed[j].via)
            /\ \A i, j \in 1..n :
                  (i # j /\ probed[i].via = probed[j].via) => probed[i].via = "location"
            /\ Len(ProbedListed) <= Len(ListedRoots)
            /\ \A i \in 1..Len(ProbedListed) : ProbedListed[i] = ListedRoots[i]
            /\ \A i \in 1..(n - 1) : ~Accepted(fs, probed[i], platform)
            /\ detected.result.hasPath =>
                  /\ n >= 1
                  /\ Accepted(fs, probed[n], platform)
                  /\ detected.result.sdkPath = probed[n].path
            /\ detected.result.success => config.sdkPath = detected.result.sdkPath

\* C9 witness: detect accepted a candidate after rejecting an session one,
\* returned it, and a candidate later in the order was acceptable too.
C9_Witness ==
    /\ pc = "detected"
    /\ Len(detected.probed) >= 2
    /\ detected.result.success
    /\ detected.result.sdkPath = detected.probed[Len(detected.probed)].path
    /\ \E c \in Range(DetectCandidates(platform, env, fs, detected.reg)) :
          /\ c \notin Range(detected.probed)
          /\ c.path # detected.result.sdkPath
          /\ Accepted(fs, c, platform)

\* C10 (as claimed): every SDK root detect persists or returns with success
\* satisfied the validity predicate, roots from ANDROID_HOME and
\* ANDROID_SDK_ROOT included.
C10_AcceptedRootIsValid ==
    (pc = "detected" /\ detected.result.success)
        => IsValidSdkLocation(fs, detected.result.sdkPath, platform)

\* C11 (as claimed): detect returns success = true only once the configured
\* SDK root is the returned path; whenever it returns success = false it
\* returns no path and leaves the configuration as it was, also when the
\* write to the configuration fails.
C11_FailureReturnsNoPath ==
    [][ pc' = "detected" =>
          /\ detected'.result.success =>
                (detected'.result.hasPath /\ config'.sdkPath = detected'.result.sdkPath)
          /\ ~detected'.result.success =>
                (~detected'.result.hasPath /\ config' = config) ]_vars

-----------------------------------------------------------------------------
(* Claims about list-devices (checked under SpecList). *)

\* the names recovered for the running instances: the keys of the map
RecoveredNames ==
    { correlation.runningMap[i].name : i \in 1..Len(correlation.runningMap) }

\* the relations between a definition and a recovered name
SameName(d, r) == d = r
SameNormalizedForm(d, r) == normalizeAvdName(d) = normalizeAvdName(r)
SubstringEitherWay(d, r) == Includes(r, d) \/ Includes(d, r)

\* a list of definitions was answered, without an error
DefinitionsAnswered == response.sent /\ response.error = <<>>

\* C1: reconciliation marks a definition Running if and only if some
\* recovered name equals it exactly, or has the same normalized form, or
\* contains it or is contained in it as a substring; every other definition
\* is Stopped.
C1_RunningIffMatch ==
    DefinitionsAnswered =>
        /\ Len(response.avds) = Len(enumeration.avdList)
        /\ \A i \in 1..Len(response.avds) :
              /\ response.avds[i].name = enumeration.avdList[i]
              /\ response.avds[i].status =
                    IF \E r \in RecoveredNames :
                          \/ SameName(enumeration.avdList[i], r)
                          \/ SameNormalizedForm(enumeration.avdList[i], r)
                          \/ SubstringEitherWay(enumeration.avdList[i], r)
                    THEN "running" ELSE "stopped"

\* C1 witness: with a name recovered, one definition is Running through the
\* substring rule alone (it neither equals a recovered name nor has the
\* normalized form of one) and another is Stopped.
C1_Witness ==
    /\ DefinitionsAnswered
    /\ RecoveredNames # {}
    /\ \E i \in 1..Len(response.avds) :
          /\ response.avds[i].status = "running"
          /\ \A r \in RecoveredNames :
                ~SameName(response.avds[i].name, r)
                /\ ~SameNormalizedForm(response.avds[i].name, r)
    /\ \E j \in 1..Len(response.avds) : response.avds[j].status = "stopped"

\* the positions at which a strategy is about to be invoked
StrategyPositions == Range(StrategyPc)

\* C2: for each running instance the strategies are invoked in the order
\* (i) emu avd name, (ii) property query, (iii) process listing, (iv)
\* console query; a strategy is invoked only after every session one was
\* invoked for that instance and recovered no name, and none is invoked
\* after one that recovered a name.
C2_StrategiesInOrder ==
    LET log == correlation.invoked
        id == correlation.runningEmulators[correlation.idx]
    IN  /\ \A i \in 1..Len(log) : log[i].strategy = i
        /\ Len(log) <= 4
        /\ \A i \in 1..(Len(log) - 1) : ~log[i].yielded
        /\ (Len(log) > 0 /\ log[Len(log)].yielded) =>
              /\ pc \in {"emuAvdName", "done"}
              /\ \E e \in Range(correlation.runningMap) : e.id = id
        /\ (Len(log) > 0 /\ pc \in StrategyPositions \ {"emuAvdName"}) =>
              /\ pc = StrategyPc[Len(log) + 1]
              /\ \A e \in Range(correlation.runningMap) : e.id # id

\* C2 witness: for the first of two instances the first two strategies
\* recovered nothing and the process listing recovered a name; the console
\* was not asked and the second instance's turn is about to start.
C2_Witness ==
    /\ pc = "emuAvdName"
    /\ Len(correlation.runningEmulators) = 2
    /\ correlation.idx = 1
    /\ Len(correlation.invoked) = 3
    /\ correlation.invoked[3].yielded
    /\ Len(correlation.runningMap) = 1

\* emulator -list-avd was run and gave no name: it failed, or exited
\* non-zero, or printed only blanks
PrimaryYieldedNothing ==
    \/ enumeration.primary = "threw"
    \/ /\ enumeration.primary # "none"
       /\ \A i \in 1..Len(enumeration.stdout) : enumeration.stdout[i] \in Whitespace

\* the names of a directory's definitions: its .ini files other than
\* config.ini, each without the extension that ends it
DirectoryDefinitions(files) ==
    LET ini == SelectSeq(files, LAMBDA f : EndsWith(f, ".ini") /\ f # <<"config", ".ini">>)
    IN  [i \in 1..Len(ini) |-> SubSeq(ini[i], 1, Len(ini[i]) - 1)]

\* the enumeration of a call that met no locator error is over
EnumerationOver ==
    /\ tools.error = <<>>
    /\ pc \in {"adb", "done"} \cup StrategyPositions

\* C3 (as claimed): without a locator error, the definitions directory is
\* read exactly when emulator -list-avd gave no name and a definitions
\* directory is known; the result is then the directory's .ini files with
\* the extension removed and config excluded; the directory is never read
\* when emulator -list-avd gave a name.
C3_ScanExactlyWhenPrimaryEmpty ==
    EnumerationOver =>
        /\ (enumeration.scan # "none")
              <=> (PrimaryYieldedNothing /\ tools.paths.avdHome # <<>>)
        /\ enumeration.scan = "read"
              => enumeration.avdList = DirectoryDefinitions(enumeration.files)
        /\ ~PrimaryYieldedNothing
              => /\ enumeration.scan = "none"
                 /\ enumeration.avdList = ParseListAvd(enumeration.stdout)

\* the directory scan gave no name: no directory is known, or it could not
\* be read, or it holds no definition
ScanYieldedNothing ==
    \/ tools.paths.avdHome = <<>>
    \/ enumeration.scan = "threw"
    \/ enumeration.scan = "read" /\ DirectoryDefinitions(enumeration.files) = <<>>

\* C4: when emulator -list-avd and the directory scan both give no name (or
\* no definitions directory is known), the answer is an empty list with the
\* error "No Android virtual devices found...", and adb is not called.
C4_NoDevicesError ==
    (EnumerationOver /\ PrimaryYieldedNothing /\ ScanYieldedNothing) =>
        /\ pc = "done"
        /\ response = ErrorResponse(<<NoDevicesMsg>>)
        /\ correlation = NoCorrelation

\* C4 witness: emulator -list-avd failed, the directory was read and held
\* only config.ini and a file that is no definition, and the answer is the
\* empty list with the error, adb not called.
C4_Witness ==
    /\ pc = "done"
    /\ enumeration.primary = "threw"
    /\ enumeration.scan = "read"
    /\ <<"config", ".ini">> \in Range(enumeration.files)
    /\ Len(enumeration.files) = 2
    /\ response.sent
    /\ response.avds = <<>>
    /\ response.error = <<NoDevicesMsg>>
    /\ correlation.adb = "none"

\* C5 (as claimed): an error of the locator does not end list-devices: the
\* enumeration still runs with the returned paths, and the definitions it
\* finds are answered.
C5_LocatorErrorAdvisory ==
    (response.sent /\ tools.error # <<>>) =>
        /\ enumeration.primary # "none"
        /\ enumeration.avdList # <<>> => Len(response.avds) = Len(enumeration.avdList)

\* C17 (as claimed): a response without an error has exactly one entry per
\* enumerated name, in enumeration order, and no two entries share a name,
\* whatever lines the tool printed or files the directory held.
C17_OneEntryPerName ==
    DefinitionsAnswered =>
        /\ Len(response.avds) = Len(enumeration.avdList)
        /\ \A i \in 1..Len(response.avds) :
              response.avds[i].name = enumeration.avdList[i]
        /\ \A i, j \in 1..Len(response.avds) :
              i # j => response.avds[i].name # response.avds[j].name

\* a line of adb devices that names an emulator instance in state device
ReadyInstanceLine(line) ==
    /\ Len(line) >= 4
    /\ line[1] = "emulator-"
    /\ line[2] \in Range(Ports)
    /\ \E k \in 4..Len(line) :
          /\ line[k] = "device"
          /\ \A j \in 3..(k - 1) : line[j] \in Whitespace

\* a line of adb devices that names an emulator instance
InstanceLine(line) == Len(line) >= 2 /\ line[1] = "emulator-" /\ line[2] \in Range(Ports)

\* adb devices was called and failed, or printed no line of a ready instance
NoReadyInstance ==
    /\ correlation.adb # "none"
    /\ \/ correlation.adb = "threw"
       \/ \A line \in Range(SplitOn(correlation.devicesOutput, "\n")) :
             ~ReadyInstanceLine(line)

\* C18: if adb devices fails or lists no line of the form emulator-<port>
\* followed by device (for example only offline instances), list-devices
\* still returns every enumerated definition, each Stopped, and no error.
C18_NoReadyInstanceAllStopped ==
    NoReadyInstance =>
        /\ pc = "done"
        /\ response.sent
        /\ response.error = <<>>
        /\ Len(response.avds) = Len(enumeration.avdList)
        /\ \A i \in 1..Len(response.avds) :
              response.avds[i] = [name |-> enumeration.avdList[i], status |-> "stopped"]
        /\ correlation.invoked = <<>>

\* C18 witness: adb devices printed the line of an offline instance and none
\* of a ready one, and two definitions were answered, both Stopped.
C18_Witness ==
    /\ NoReadyInstance
    /\ correlation.adb = "listed"
    /\ \E line \in Range(SplitOn(correlation.devicesOutput, "\n")) : InstanceLine(line)
    /\ Len(response.avds) = 2

\* the position after the one at pc when the strategy there recovered
\* nothing, given the correlation state c it left
AfterNoName(c) ==
    CASE pc = "emuAvdName" -> "getprop"
      [] pc = "getprop" -> "processes"
      [] pc = "processes" -> "console"
      [] OTHER -> IF c.idx < Len(c.runningEmulators) THEN "emuAvdName" ELSE "done"

\* C19: a strategy whose command fails never stops the remaining strategies
\* for the instance nor the later instances; an instance for which every
\* strategy fails adds no recovered name; the names already recovered are
\* kept.
C19_FailureIsContained ==
    [][ (pc \in StrategyPositions) =>
          (/\ correlation'.threw =>
                 /\ correlation'.runningMap = correlation.runningMap
                 /\ pc' = AfterNoName(correlation')
           /\ (\A i \in 1..Len(correlation'.invoked) : ~correlation'.invoked[i].yielded) =>
                 \A e \in Range(correlation'.runningMap) :
                   e.id # correlation'.runningEmulators[correlation'.idx]
           /\ \A e \in Range(correlation.runningMap) :
                 \E f \in Range(correlation'.runningMap) : f.name = e.name) ]_vars

\* C19 witness: the first of two instances was named; for the second all
\* four strategies were invoked, none recovered a name and the last one's
\* command failed; the first instance's name is still the only one recovered.
C19_Witness ==
    /\ pc = "done"
    /\ Len(correlation.runningEmulators) = 2
    /\ correlation.idx = 2
    /\ Len(correlation.invoked) = 4
    /\ \A i \in 1..4 : ~correlation.invoked[i].yielded
    /\ correlation.threw
    /\ Len(correlation.runningMap) = 1
    /\ correlation.runningMap[1].id = correlation.runningEmulators[1]

-----------------------------------------------------------------------------
(* Claims about launch (checked under SpecLaunch). *)

\* the events of a kind, in order
EventsOf(kinds) == SelectSeq(launch.events, LAMBDA ev : ev.kind \in kinds)

\* the calls of cp.exec / cp.spawn made so far, in order
Calls == EventsOf({"call"})

\* the notifications shown so far, in order
Notifications == EventsOf({"error", "information"})

\* C12: if ToolLocator returns an error, launch shows that error as an
\* error notification and spawns no process by any strategy.
C12_LocatorErrorStopsLaunch ==
    (pc # "idle" /\ tools.error # <<>>) =>
        /\ pc = "done"
        /\ Calls = <<>>
        /\ Notifications = <<LocatorErrorMessage(tools.error)>>

\* C12 witness: a launch was requested with an emulator override that does
\* not exist; the notification quotes the locator's error.
C12_Witness ==
    /\ pc = "done"
    /\ launch.avdName # <<>>
    /\ tools.error = <<EmulatorMissingMsg(config.emulatorPath)>>
    /\ Len(launch.events) = 1
    /\ launch.events[1].kind = "error"
    /\ launch.events[1].error = tools.error

\* the strategy of the first call: the primary
PrimaryStrategy == Calls[1].text

\* the positions of the events saying that a call of this strategy failed
\* (the call threw, or its callback got an error)
FailuresOf(strategy) ==
    { i \in 1..Len(launch.events) :
        launch.events[i].kind \in {"threw", "failed"} /\ launch.events[i].text = strategy }

\* the positions of the error notifications
ErrorsShown == { i \in 1..Len(launch.events) : launch.events[i].kind = "error" }

\* the positions of the success notifications
SuccessesShown == { i \in 1..Len(launch.events) : launch.events[i].kind = "information" }

\* C13 (as claimed): on every platform, when the primary spawn fails, exactly
\* one alternative spawn strategy is attempted, and an error notification is
\* shown only after the alternative also failed.
C13_OneAlternativeThenError ==
    (pc = "done" /\ Calls # <<>> /\ FailuresOf(PrimaryStrategy) # {}) =>
        /\ Len(Calls) = 2
        /\ \A i \in ErrorsShown : \E j \in FailuresOf(Calls[2].text) : j < i

\* the positions of the calls, in order
CallPositions ==
    LET at == { i \in 1..Len(launch.events) : launch.events[i].kind = "call" }
    IN  [ k \in 1..Cardinality(at) |->
            CHOOSE i \in at : Cardinality({ j \in at : j <= i }) = k ]

\* the log lines that record the failure of the primary call
PrimaryFailureLines == {"Error launching emulator: ", "Error in primary launch method: "}

\* the primary call failed and the strategy tried next succeeded
SecondarySucceeded ==
    /\ Len(Calls) >= 2
    /\ FailuresOf(PrimaryStrategy) # {}
    /\ \E i \in 1..Len(launch.events) :
          launch.events[i].kind = "ok" /\ launch.events[i].text = Calls[2].text

\* C14: when the primary spawn fails and the secondary succeeds, no error
\* notification is shown, and the log holds a line recording the primary
\* failure that was written before the secondary spawn was attempted.
C14_PrimaryFailureLoggedOnly ==
    SecondarySucceeded =>
        /\ ErrorsShown = {}
        /\ \E i \in 1..Len(launch.events) :
              /\ launch.events[i].kind = "log"
              /\ launch.events[i].text \in PrimaryFailureLines
              /\ \E f \in FailuresOf(PrimaryStrategy) : f < i
              /\ i < CallPositions[2]

\* C14 witness: the primary call's callback got an error, fallback method 1
\* was called and ended without one, and the handler is done.
C14_Witness ==
    /\ SecondarySucceeded
    /\ pc = "done"
    /\ \E f \in FailuresOf(PrimaryStrategy) : launch.events[f].kind = "failed"
    /\ Len(Calls) = 2

\* some call created the process: a callback got no error, or cp.spawn
\* returned
ProcessCreated ==
    \/ \E i \in 1..Len(launch.events) : launch.events[i].kind = "ok"
    \/ /\ \E i \in 1..Len(Calls) : Calls[i].text = "spawn"
       /\ FailuresOf("spawn") = {}

\* C15 (as claimed): the success notification is shown only if some spawn
\* strategy created the process: a request whose every strategy failed shows
\* no success notification, and no request shows both a success and an error
\* notification.
C15_SuccessOnlyIfCreated ==
    pc = "done" =>
        /\ SuccessesShown # {} => ProcessCreated
        /\ ~(SuccessesShown # {} /\ ErrorsShown # {})

\* C16 (as claimed): on every platform every command spawned, primary or
\* fallback, runs exactly the emulator path ToolLocator returned (a
\* configured override included), with the requested definition name.
C16_SpawnsLocatedEmulator ==
    \A i \in 1..Len(Calls) :
        /\ Calls[i].path = tools.paths.emulator
        /\ Calls[i].name = launch.avdName

-----------------------------------------------------------------------------
(* Claims about the message handler (checked under SpecServe). *)

\* an avdList message was posted / an sdkDetectionResult message was posted
AvdListPosted == response.sent
SdkDetectionResultPosted == pc = "detected"

\* C20: every getAvds or refresh message is eventually answered with exactly
\* one avdList message, and every detectSdk message with exactly one
\* sdkDetectionResult message, provided each external call and filesystem
\* probe eventually returns or fails.
C20_EveryMessageAnsweredOnce ==
    /\ (message \in {"getAvds", "refresh"}) ~> AvdListPosted
    /\ (message = "detectSdk") ~> SdkDetectionResultPosted
    /\ [][ /\ AvdListPosted => (response' = response /\ pc' = pc)
           /\ SdkDetectionResultPosted => (detected' = detected /\ pc' = pc)
           /\ AvdListPosted' => message \in {"getAvds", "refresh"} /\ ~SdkDetectionResultPosted'
           /\ SdkDetectionResultPosted' => message = "detectSdk" /\ ~AvdListPosted' ]_vars

\* C20 witness: a refresh message was answered after the directory was read
\* and the last strategy was tried for the second of two running instances.
C20_Witness ==
    /\ message = "refresh"
    /\ AvdListPosted
    /\ enumeration.scan = "read"
    /\ correlation.idx = 2
    /\ Len(correlation.invoked) = 4

\* the tabulated answers are the answers: under SpecServe the served steps
\* are exactly the steps of ListDevices and Detect
ServedStepsAreHandlerSteps ==
    [][(ListDevicesServed <=> ListDevices) /\ (DetectServed <=> Detect)]_vars

-----------------------------------------------------------------------------
(* Claims about overlapping list-devices calls (checked under SpecOverlap). *)

\* the two overlapping calls
OverlappingCalls == IF alone.known THEN {Locals, suspended} ELSE {}

\* C21: when two list-devices calls overlap in an environment that does not
\* change, each call that has answered has answered what the call that ran
\* alone answered, and a step of the running call leaves the definition list,
\* the instance list and the name map of the waiting call as they were
C21_OverlappingCallsAnswerAsAlone ==
    /\ [](\A call \in OverlappingCalls :
             call.pc = "done" => call.response = alone.response)
    /\ [][ (alone.known /\ ~Switch) => (suspended' = suspended) ]_vars

\* one call has answered with a running definition while the other call is in
\* the middle of its strategies, its own name map already holding a name
C21_Witness ==
    /\ alone.known
    /\ pc = "done"
    /\ \E i \in 1..Len(response.avds) : response.avds[i].status = "running"
    /\ suspended.pc \in {"getprop", "processes", "console"}
    /\ suspended.correlation.idx = 2
    /\ Len(suspended.correlation.runningMap) = 1

-----------------------------------------------------------------------------
(* Claims about the match rules (checked under SpecList). *)

\* the rules evaluated for definition d when they are applied in the order
\* exact, normalized, substring and the first matching rule wins
ExactNormalizedSubstring(d) ==
    IF \E r \in RecoveredNames : SameName(d, r) THEN <<"exact">>
    ELSE IF \E r \in RecoveredNames : SameNormalizedForm(d, r) THEN <<"exact", "normalized">>
    ELSE <<"exact", "normalized", "substring">>

\* C22 (as claimed): for each definition the match rules are evaluated in the
\* order exact, normalized, substring, up to and including the first rule
\* that matches: the substring rule only after the other two failed, and no
\* rule after the one that marked the definition Running.
C22_ExactThenNormalizedThenSubstring ==
    DefinitionsAnswered =>
        \A i \in 1..Len(enumeration.avdList) :
            RulesEvaluated(enumeration.avdList[i], correlation.runningMap)
                = ExactNormalizedSubstring(enumeration.avdList[i])

-----------------------------------------------------------------------------
(* Claims about expand (checked under SpecExpand). *)

\* s contains a %NAME% token: two percent signs with something, and no
\* percent sign, between them
HasPercentToken(s) ==
    \E i, j \in 1..Len(s) :
        /\ j > i + 1
        /\ s[i] = "%" /\ s[j] = "%"
        /\ \A k \in (i+1)..(j-1) : s[k] # "%"

\* s contains a ${NAME} token: "${", a closing brace, and something, and no
\* closing brace, between them
HasBraceToken(s) ==
    \E i, j \in 1..Len(s) :
        /\ j > i + 2
        /\ s[i] = "$" /\ s[i+1] = "{" /\ s[j] = "}"
        /\ \A k \in (i+2)..(j-1) : s[k] # "}"

\* s contains a $NAME token: a dollar sign with a word after it
HasDollarToken(s) ==
    \E i \in 1..(Len(s) - 1) : s[i] = "$" /\ s[i+1] \in WordTokens

TokenFree(s) == ~HasPercentToken(s) /\ ~HasBraceToken(s) /\ ~HasDollarToken(s)

\* C23: a string that contains no %NAME%, ${NAME} or $NAME token and does
\* not begin with "~" is returned unchanged, and the empty string is
\* returned as the empty string.
C23_TokenFreeUnchanged ==
    pc = "returned" =>
        /\ (TokenFree(argument) /\ (argument = <<>> \/ Head(argument) # "~"))
               => returned = argument
        /\ argument = <<>> => returned = <<>>

\* a string with "%", "$" and "~" in it and no token is returned as it is
C23_Witness ==
    /\ pc = "returned"
    /\ TokenFree(argument)
    /\ {"%", "$", "~"} \subseteq Range(argument)
    /\ Head(argument) # "~"
    /\ returned = argument

\* process.env[name] || ''
ValueOf(name, e) == IF name \in DOMAIN e THEN e[name] ELSE <<>>

\* what a value inserted by the percent pass is after the dollar pass
ScannedForDollar(v, e) ==
    IF Len(v) = 2 /\ v[1] = "$" THEN ValueOf(v[2], e) ELSE v

\* what a segment of a composed string is replaced with
Replacement(seg, e) ==
    CASE seg.kind = "literal" -> seg.text
      [] seg.kind = "percent" -> ScannedForDollar(ValueOf(seg.text[1], e), e)
      [] OTHER                -> ValueOf(seg.text[1], e)

\* C24: every %NAME%, ${NAME} and $NAME token is replaced with the value of
\* NAME, or with nothing when NAME is unset, and the text between the tokens
\* is kept; a value the percent pass inserted is scanned for dollar tokens,
\* a value the dollar pass inserted is not scanned again.
C24_EveryTokenReplaced ==
    pc = "returned" =>
        \A segs \in SegmentSeqs :
            argument = Flatten([i \in 1..Len(segs) |-> Written(segs[i])])
                => returned = Flatten([i \in 1..Len(segs) |-> Replacement(segs[i], env)])

\* %ANDROID_HOME% with ANDROID_HOME=$LOCALAPPDATA, then a ${...} token
C24_Witness ==
    /\ pc = "returned"
    /\ argument = <<"%", "ANDROID_HOME", "%", "$", "{", "ANDROID_HOME", "}">>
    /\ env["ANDROID_HOME"] = <<"$", "LOCALAPPDATA">>
    /\ returned = <<"/", "data", "$", "LOCALAPPDATA">>

\* C25 (as claimed): when the string begins with "~" after the substitution
\* of the tokens, the home directory followed by the rest of the string,
\* exactly as written, is returned.
C25_HomeThenRestUnchanged ==
    pc = "returned" =>
        LET substituted == DollarPass(PercentPass(argument, env), env)
        IN  (substituted # <<>> /\ Head(substituted) = "~")
                => returned = HomeDir \o Tail(substituted)

-----------------------------------------------------------------------------
(* Claims about normalize (checked under SpecNormalize). *)

\* the characters that are neither letters nor digits
Separators == {" ", "_", "-", "."}

\* the other case of a letter
OtherCase(c) == IF c = "A" THEN "a" ELSE IF c = "a" THEN "A" ELSE c

\* the names that differ from s in one place, and there only in the case of
\* a letter or in a character that is neither a letter nor a digit, present
\* in one name and absent from the other (at either end or inside).  Names
\* that differ only in such ways are linked by a chain of these steps.
OneInsignificantDifference(s) ==
    { [s EXCEPT ![i] = OtherCase(s[i])] : i \in 1..Len(s) }
    \cup { SubSeq(s, 1, i - 1) \o SubSeq(s, i + 1, Len(s)) :
           i \in { k \in 1..Len(s) : s[k] \in Separators } }
    \cup { SubSeq(s, 1, i) \o <<c>> \o SubSeq(s, i + 1, Len(s)) :
           i \in 0..Len(s), c \in Separators }

\* C26: names that differ only in letter case, in leading or trailing
\* whitespace, and in whitespace, hyphens, underscores or other characters
\* that are neither letters nor digits have the same normalized form; the
\* normalized form holds lowercase letters and digits only, and normalizing
\* it again gives it back.
C26_NormalizeIgnoresCaseAndSeparators ==
    pc = "returned" =>
        /\ \A other \in OneInsignificantDifference(argument) :
              normalizeAvdName(other) = returned
        /\ Range(returned) \subseteq {"a", "6"}
        /\ normalizeAvdName(returned) = returned

\* "A-6" is normalized to "a6", the form of "a 6" too
C26_Witness ==
    /\ pc = "returned"
    /\ argument = <<"A", "-", "6">>
    /\ returned = <<"a", "6">>
    /\ <<"a", " ", "6">> \in OneInsignificantDifference(<<"a", "6">>)

-----------------------------------------------------------------------------
(* Claims about sessions (checked under SpecSession). *)

\* the handler that is running has called _findAndroidTools
JustLocated == message \in {"getAvds", "launchAvd"} /\ pc # "idle"

-----------------------------------------------------------------------------
(* Claims about the process-listing strategy (checked under SpecOverlap,    *)
(* in the environments where the process listing is the strategy that       *)
(* recovers names: it holds one line for each instance, with the instance's *)
(* definition after -avd and its port after -port).                         *)

\* the line identifies the instance listening on `port`
IdentifiesPort(line, port) ==
    Includes(line, <<"-port", " ", port>>) \/ Includes(line, <<"emulator-", port>>)

\* the lines of the process listing
ListingLines == SplitOn(answers.correlation.processes.stdout, "\n")

\* C28 (as claimed): on every platform, a name the process-listing strategy
\* attributes to an instance was parsed from a line of the listing that
\* identifies that instance's port; the name on one instance's line is never
\* attributed to another instance.
C28_NameFromTheInstancesLine ==
    answers.correlation.processes.ok =>
        \A i \in 1..Len(correlation.runningMap) :
            \E l \in 1..Len(ListingLines) :
                /\ IdentifiesPort(ListingLines[l], PortOf(correlation.runningMap[i].id))
                /\ Trim(AvdFlagName(ListingLines[l])) = correlation.runningMap[i].name

-----------------------------------------------------------------------------
(* Claims about the directory scan (checked under SpecList). *)

\* the files of the directory that end in .ini, other than config.ini
DefinitionFiles ==
    SelectSeq(enumeration.files,
              LAMBDA file : EndsWith(file, ".ini") /\ file # <<"config", ".ini">>)

\* C29 (as claimed): the directory scan gives one name for every file ending
\* in .ini other than config.ini, and the name followed by ".ini" is the
\* file name: exactly the trailing ".ini" is removed, also when ".ini"
\* occurs earlier in the file name.
C29_TrailingIniRemoved ==
    enumeration.scan = "read" =>
        /\ Len(enumeration.avdList) = Len(DefinitionFiles)
        /\ \A i \in 1..Len(DefinitionFiles) :
              enumeration.avdList[i] \o <<".ini">> = DefinitionFiles[i]

-----------------------------------------------------------------------------
(* Claims about the probes under the SDK root (checked under SpecLocate). *)

\* the emulator candidates under an SDK root, in the claimed order
EmulatorCandidates(root, plat) ==
    LET suffix == IF plat = "win32" THEN <<".exe">> ELSE <<>>
    IN  << root \o <<"/", "emulator", "/", "emulator">> \o suffix,
           root \o <<"/", "tools", "/", "emulator">> \o suffix,
           root \o <<"/", "tools", "/", "emulator", "/", "emulator">> \o suffix,
           root \o <<"/", "tools", "/", "bin", "/", "emulator">> \o suffix >>
        \o (IF plat = "win32" THEN <<root \o <<"/", "emulator", "/", "emulator">>>> ELSE <<>>)

\* the adb candidate under an SDK root
AdbCandidates(root, plat) ==
    << root \o <<"/", "platform-tools", "/", "adb">>
            \o (IF plat = "win32" THEN <<".exe">> ELSE <<>>) >>

\* the positions of the candidates that exist
Existing(candidates) == { i \in 1..Len(candidates) : exists(fs, candidates[i]) }

\* C30: with an SDK root configured and no emulator override, the emulator
\* path is the first candidate that exists, whichever later candidates
\* exist; no SDK candidate is probed for a tool that has an override.
C30_FirstExistingCandidate ==
    pc = "located" =>
        LET emulators == EmulatorCandidates(ExpandedSdkPath, platform)
            adbs == AdbCandidates(ExpandedSdkPath, platform)
        IN  /\ (ExpandedSdkPath # <<>> /\ ExpandedEmulatorOverride = <<>>
                   /\ Existing(emulators) # {})
                  => \E i \in Existing(emulators) :
                        /\ \A j \in Existing(emulators) : i <= j
                        /\ tools.paths.emulator = emulators[i]
            /\ ExpandedEmulatorOverride # <<>>
                  => Range(emulators) \cap Range(tools.probes) = {}
            /\ ExpandedAdbOverride # <<>>
                  => Range(adbs) \cap Range(tools.probes) = {}

\* on Windows the first candidate is missing, the second and the fourth
\* exist, and the second is the emulator path
C30_Witness ==
    /\ pc = "located"
    /\ platform = "win32"
    /\ ExpandedSdkPath = SdkDir
    /\ ExpandedEmulatorOverride = <<>>
    /\ Existing(EmulatorCandidates(SdkDir, "win32")) = {2, 4}
    /\ tools.paths.emulator = EmulatorCandidates(SdkDir, "win32")[2]

-----------------------------------------------------------------------------
(* Claims about the validity predicate (checked under SpecValidity). *)

\* whether something named by the given segments exists under the root
Under(segments) == exists(fs, argument \o segments)

\* adb under its platform's name
AdbUnder ==
    IF platform = "win32" THEN Under(<<"/", "platform-tools", "/", "adb", ".exe">>)
    ELSE Under(<<"/", "platform-tools", "/", "adb">>)

\* C31: whichever of platform-tools, adb, tools and emulator exist under the
\* root, the predicate returns true exactly when adb exists, or
\* platform-tools exists together with tools or emulator.
C31_ValidExactlyWhenAdbOrDirs ==
    pc = "returned" =>
        ( returned = <<"true">>
          <=> \/ AdbUnder
              \/ /\ Under(<<"/", "platform-tools">>)
                 /\ Under(<<"/", "tools">>) \/ Under(<<"/", "emulator">>) )

\* a root with platform-tools and emulator, without adb and tools, is valid
C31_Witness ==
    /\ pc = "returned"
    /\ returned = <<"true">>
    /\ ~AdbUnder
    /\ Under(<<"/", "platform-tools">>)
    /\ Under(<<"/", "emulator">>)
    /\ ~Under(<<"/", "tools">>)

-----------------------------------------------------------------------------
(* Claims about the shape of the list-devices response (checked under       *)
(* SpecList).                                                                *)

\* C32: in every list-devices response the device list is empty if and only
\* if a non-empty error is present: never devices together with an error,
\* never neither.
C32_EmptyListIffError ==
    response.sent => (response.avds = <<>> <=> response.error # <<>>)

\* a response with devices and no error although adb failed, after the
\* directory scan gave the definitions
C32_Witness ==
    /\ response.sent
    /\ response.avds # <<>>
    /\ response.error = <<>>
    /\ enumeration.scan = "read"
    /\ correlation.adb = "threw"

-----------------------------------------------------------------------------
(* Claims about the exact-match branch of the reconciliation (checked under *)
(* SpecList).                                                                *)

\* the status a reconciliation without the branch of lines 524-528 gives
StatusWithoutExactBranch(name, runningMap) ==
    IF \E i \in 1..Len(runningMap) :
           normalizeAvdName(runningMap[i].name) = normalizeAvdName(name)
    THEN "running"
    ELSE IF \E i \in 1..Len(runningMap) :
                \/ Includes(runningMap[i].name, name)
                \/ Includes(name, runningMap[i].name)
    THEN "running"
    ELSE "stopped"

\* the response lists definitions, reconciled with the recovered names
Reconciled == response.sent /\ response.error = <<>>

\* C33: the exact-match branch is never taken: for no definition does the
\* reconciliation get past the normalized rule and succeed at the exact one,
\* and every response is the one a reconciliation without that branch gives.
C33_ExactBranchUnreachable ==
    Reconciled =>
        \A i \in 1..Len(enumeration.avdList) :
            /\ RulesEvaluated(enumeration.avdList[i], correlation.runningMap)
                  # <<"normalized", "exact">>
            /\ response.avds[i].status
                  = StatusWithoutExactBranch(enumeration.avdList[i], correlation.runningMap)

\* a definition whose name is a recovered name, character for character, is
\* Running, decided by the normalized rule
C33_Witness ==
    /\ Reconciled
    /\ \E i \in 1..Len(enumeration.avdList) :
          /\ \E j \in 1..Len(correlation.runningMap) :
                correlation.runningMap[j].name = enumeration.avdList[i]
          /\ normalizeAvdName(enumeration.avdList[i]) # enumeration.avdList[i]
          /\ response.avds[i].status = "running"
          /\ RulesEvaluated(enumeration.avdList[i], correlation.runningMap) = <<"normalized">>

-----------------------------------------------------------------------------
(* Claims about the keys of the recovered-name map (checked under SpecKeys). *)

\* a string with a blank at its start or at its end
BlankAtAnEnd(s) == s # <<>> /\ (s[1] \in Whitespace \/ s[Len(s)] \in Whitespace)

\* C34: every key of the recovered-name map is non-empty and has no blank at
\* either end, whichever strategy produced it, and no two keys belong to the
\* same running instance.
C34_KeysNonEmptyTrimmedOnePerInstance ==
    /\ \A j \in 1..Len(correlation.runningMap) :
          /\ correlation.runningMap[j].name # <<>>
          /\ ~BlankAtAnEnd(correlation.runningMap[j].name)
    /\ \A j, k \in 1..Len(correlation.runningMap) :
          correlation.runningMap[j].id = correlation.runningMap[k].id => j = k

\* two instances were named, the first by adb emu avd name printing a name
\* with a blank inside, the second by the console answering a quoted name
\* that starts with a blank
C34_Witness ==
    /\ pc = "done"
    /\ Len(correlation.runningMap) = 2
    /\ correlation.runningMap[1] = [name |-> <<"X", " ", "Y">>, id |-> EmulatorId(1)]
    /\ correlation.runningMap[2] = [name |-> NameAb, id |-> EmulatorId(2)]
    /\ correlation.invoked[Len(correlation.invoked)] = [strategy |-> 4, yielded |-> TRUE]

-----------------------------------------------------------------------------
(* Claims about the names in the response (checked under SpecList). *)

\* C35 (as claimed): every definition name in a list-devices response is
\* non-empty, whether emulator -list-avd printed it or the directory scan
\* derived it from a file name.
C35_NamesNonEmpty ==
    response.sent => \A i \in 1..Len(response.avds) : response.avds[i].name # <<>>

-----------------------------------------------------------------------------
(* Claims about a launch that overlaps a detectSdk (checked under SpecRace). *)

\* the SDK root the request's tool resolution read
ResolvedRoot == expandEnvVars(session.config.sdkPath, env)

\* the commands the request has run so far
SpawnCalls == SelectSeq(launch.events, LAMBDA ev : ev.kind = "call")

\* C36 (as claimed): on Windows every command a launch request runs is
\* built from the SDK root its tool resolution read and checked, also when a
\* detectSdk persists another root while the request is being handled.
C36_SpawnRootIsResolvedRoot ==
    platform = "win32" =>
        \A i \in 1..Len(SpawnCalls) :
            /\ launch.sdkPath = ResolvedRoot
            /\ SpawnCalls[i].path = ResolvedRoot \o <<"/", "emulator", "/", "emulator", ".exe">>

-----------------------------------------------------------------------------
(* Claims about the fallback after a primary that ran (checked under        *)
(* SpecProcess).                                                             *)

\* a fallback command was started for the request
FallbackStarted ==
    \E i \in 1..Len(launch.events) :
        launch.events[i].kind = "call" /\ launch.events[i].text \in {"start", "spawn"}

\* C37 (as claimed): a Windows launch request starts a fallback command only
\* if its primary command never produced a running process: after a primary
\* process that was created, ran and exited with an error, no second
\* command is started.
C37_FallbackOnlyIfPrimaryNeverRan ==
    (platform = "win32" /\ FallbackStarted)
        => ProcessStarted("primary") \notin Range(launch.events)

=============================================================================
